---- MODULE Spec2Model ----
(***************************************************************************)
(* sessionmixer: the bidirectional synchronisation engine.                 *)
(*                                                                         *)
(* Two actors share the cached integers of the channels and gangs:         *)
(*   - the UI path (SessionMixer.Draw -> GangedFader.HandleUIChange ->     *)
(*     handleMirrorMode -> MixerChannel.HandleUIChange -> SetValue);       *)
(*   - the dispatcher goroutine (WatchControls ->                          *)
(*     EventMonitor.handleControlChange -> GangedFader.HandleHWChange ->   *)
(*     MixerChannel.HandleHWChange).                                       *)
(* Every atomic load or store of the source is one step of its actor.      *)
(* The hardware control provider is the environment: a register per        *)
(* parameter and a FIFO stream of change notifications.                    *)
(***************************************************************************)
EXTENDS Integers, Sequences, FiniteSets

\* ------------------------------------------------------------------ bounds
MaxVal == 1      \* raw values range over 0..MaxVal (Control.Min..Control.Max)
MaxOps == 3      \* number of changes the user and other software make
MaxLoad == 5     \* entries (gangs, control names, level names) of a config
NormSteps == 4   \* fader positions are the fractions k/NormSteps of the track
MaxLevels == 2   \* level controls of a gang

Values == 0..MaxVal

VARIABLES
    cfg,           \* which configuration LoadGangs was given
    observe,       \* whether the history variables are recorded
    hw,            \* hardware register of each parameter
    queue,         \* notifications in flight, oldest first: <<NumID, value>>
    lastUIValue,   \* MixerChannel.lastUIValue, per channel
    lastHWValue,   \* MixerChannel.lastHWValue, per channel
    lastValue,     \* GangedFader.lastValue, per gang
    ui,            \* the UI path: program counter and locals
    disp,          \* the dispatcher goroutine: program counter and locals
    opsLeft,       \* changes the user and other software still make
    writeFailed,   \* history: some SetValue call has failed
    chLog,         \* history: per channel, its last two completed calls
    ucall,         \* history: the latest GangedFader.HandleUIChange call
    ld,            \* ControlMapper.LoadGangs: its input so far, locals, result
    shown          \* a fader's display: its description, label text, colour

vars == <<cfg, observe, hw, queue, lastUIValue, lastHWValue, lastValue, ui,
          disp, opsLeft, writeFailed, chLog, ucall, ld, shown>>

\* ----------------------------------------------------------- configuration
\* Configuration 1: one fader ganging parameters 1 and 2.
\* Configuration 2: two single-channel faders that both name parameter 1
\* (LoadGangs builds a channel for every control name and rejects no repeated
\* name); parameter 2 is on the card but in no gang.
\* Configuration 3: as 1, with a narrower range on parameter 2.
\* Configurations 4 and 5: as 1, the fader constructed (NewGangedFader) in
\* relative and in scaled mode.
\* Configuration 6: as 1, the fader constructed with a GangMode that is none
\* of the three constants (GangMode is a string; its zero value is one).
Configs == {1, 2}
Params == {1, 2}
ChanParam == IF cfg = 2 THEN <<1, 1>> ELSE <<1, 2>>     \* channel -> NumID
GangChannels == IF cfg = 2 THEN << <<1>>, <<2>> >> ELSE << <<1, 2>> >>
GangModeMirror == "mirror"
GangModeRelative == "relative"
GangModeScaled == "scaled"
Chans == DOMAIN ChanParam
Gangs == DOMAIN GangChannels
\* LoadGangs constructs mirror faders only; NewGangedFader takes any mode.
GangMode ==
    [g \in Gangs |-> IF cfg = 4 THEN GangModeRelative
                     ELSE IF cfg = 5 THEN GangModeScaled
                     ELSE IF cfg = 6 THEN ""
                     ELSE GangModeMirror]

\* Control.Min and Control.Max of parameter p.
ControlMin(p) == 0
ControlMax(p) == IF cfg = 3 /\ p = 2 THEN MaxVal - 1 ELSE MaxVal

\* Mutant: a fader range one beyond the first control's maximum.
GangMaxBeyond(g) == ControlMax(ChanParam[GangChannels[g][1]]) + 1

\* NewGangedFader: the fader's range is the range of channels[0]'s control.
GangMin(g) == ControlMin(ChanParam[GangChannels[g][1]])
GangMax(g) == ControlMax(ChanParam[GangChannels[g][1]])

\* The values a fader widget can be asked for; Draw passes dfx.FaderI the
\* fader's own range.
FaderValues == 0..(MaxVal + 1)

NoErr == 0          \* a nil error; the error of channel c's SetValue is c
ModeErr == -1       \* the error "unknown gang mode"

\* LoadGangs has returned its gangs (the run command goes on only then).
Loaded == [pc |-> "returned"]

\* No fader is being displayed.
NoDisplay == [pc |-> "none"]

UIIdle == [pc |-> "idle", g |-> 0, v |-> 0, idx |-> 0, lastErr |-> NoErr,
           w |-> 0, snap |-> <<>>]
DispIdle == [pc |-> "idle", g |-> 0, p |-> 0, c |-> 0, v |-> 0, w |-> 0,
             snap |-> <<>>]
NoCall == [g |-> 0, v |-> 0, changed |-> FALSE, written |-> {},
           skipped |-> {}, failed |-> {}, ret |-> NoErr, done |-> FALSE]

\* The state LoadGangs leaves: NewMixerChannel reads the hardware once into
\* both caches, NewGangedFader takes the value of channels[0].  The code only
\* compares values for equality, so a start with parameter 1 at 0 stands for
\* every start: the second parameter holds the same value or another one.
AssembledFrom(configs) ==
    /\ cfg \in configs
    /\ hw \in {h \in [Params -> {0, MaxVal}] :
                  h[1] = 0 /\ \A p \in Params : h[p] <= ControlMax(p)}
    /\ queue = <<>>
    /\ lastUIValue = [c \in Chans |-> hw[ChanParam[c]]]
    /\ lastHWValue = [c \in Chans |-> hw[ChanParam[c]]]
    /\ lastValue = [g \in Gangs |-> lastUIValue[GangChannels[g][1]]]
    /\ ui = UIIdle
    /\ disp = DispIdle
    /\ opsLeft = MaxOps
    /\ writeFailed = FALSE
    /\ chLog = [c \in Chans |-> <<>>]
    /\ ucall = NoCall
    /\ ld = Loaded
    /\ shown = NoDisplay

Assembled == AssembledFrom(Configs)

Init == Assembled /\ observe = FALSE

SeqInit == Assembled /\ observe = TRUE

\* ------------------------------------------------------------- helpers
Min(S) == CHOOSE x \in S : \A y \in S : x <= y

\* What a channel call sees when it starts: both caches and the register of
\* its parameter.
ChanSnap(c) == <<lastUIValue[c], lastHWValue[c], hw[ChanParam[c]]>>

\* The record of a completed channel call, from the state it started in
\* (snap) and the state it returned in:
\*   k, v      the call ("ui": HandleUIChange, "hw": HandleHWChange) and
\*             its argument
\*   differed  the argument differed from the cache the call compares it with
\*   w         SetValue calls issued
\*   chg       a cache or the register differs from what it was
\*   wfail     a SetValue call failed
\*   ret       the error returned
\*   uiAt      lastUIValue = v on return;  hwAt: lastHWValue = v on return
\*   hwSame    lastHWValue is what it was
\*   agree     lastUIValue equals the register on return
\*   regAt     the register holds v on return
CallRec(k, v, snap, postUI, postHW, postReg, w, wfail, ret) ==
    [k |-> k, v |-> v,
     differed |-> IF k = "ui" THEN snap[1] # v ELSE snap[2] # v,
     w |-> w,
     chg |-> <<postUI, postHW, postReg>> # snap,
     wfail |-> wfail,
     ret |-> ret,
     uiAt |-> postUI = v,
     hwAt |-> postHW = v,
     hwSame |-> postHW = snap[2],
     agree |-> postUI = postReg,
     regAt |-> postReg = v]

\* The call log of channel c with one more completed call (the last two kept).
Logged(c, rec) ==
    IF observe
    THEN [chLog EXCEPT ![c] = IF Len(@) < 2 THEN Append(@, rec)
                                            ELSE <<@[2], rec>>]
    ELSE chLog

Observed(call) == IF observe THEN call ELSE ucall

\* The value the register of parameter p takes when v is written to it: a
\* value outside the control's range is rejected (the write fails) or limited
\* to the range by the driver.
Clamp(p, v) ==
    IF v < ControlMin(p) THEN ControlMin(p)
    ELSE IF v > ControlMax(p) THEN ControlMax(p)
    ELSE v

\* Mutant: a provider that does not notify the program's own writes.
SetValueUnnotified(p, v, ok) ==
    IF ok
    THEN /\ hw' = [hw EXCEPT ![p] = Clamp(p, v)]
         /\ UNCHANGED queue
    ELSE UNCHANGED <<hw, queue>>

\* Control.SetValue(v) on parameter p: it succeeds, the register takes the
\* value and the provider notifies it on the subscription, or it fails and
\* the register keeps its value.
SetValue(p, v, ok) ==
    IF ok
    THEN /\ hw' = [hw EXCEPT ![p] = Clamp(p, v)]
         /\ queue' = Append(queue, <<p, Clamp(p, v)>>)
    ELSE UNCHANGED <<hw, queue>>

\* ----------------------------------------------------------- the UI path
\* The channel the broadcast loop of handleMirrorMode is at.
UIChan == GangChannels[ui.g][ui.idx]

\* SessionMixer.Draw: the fader of gang g reports changed with newValue v, a
\* value of the fader's range, and Draw calls gang.HandleUIChange(v).
Draw(g, v) ==
    /\ ui.pc = "idle"
    /\ v \in GangMin(g)..GangMax(g)
    /\ opsLeft > 0
    /\ opsLeft' = opsLeft - 1
    /\ ui' = [UIIdle EXCEPT !.pc = "gLoad", !.g = g, !.v = v]
    /\ ucall' = Observed([NoCall EXCEPT !.g = g, !.v = v])
    /\ UNCHANGED <<cfg, observe, ld, shown, writeFailed>>
    /\ UNCHANGED <<hw, queue, lastUIValue, lastHWValue,
                   lastValue, disp, chLog>>

\* Mutant: GangedFader.HandleUIChange without its equality check.
GangUINeverSkips(oldValue, newValue) == FALSE

\* GangedFader.HandleUIChange: the value equality check on lastValue.
GangUISkip(oldValue, newValue) == oldValue = newValue

GangUILoad ==
    /\ ui.pc = "gLoad"
    /\ IF GangUISkip(lastValue[ui.g], ui.v)
       THEN /\ ui' = UIIdle
            /\ ucall' = Observed([ucall EXCEPT !.done = TRUE, !.ret = NoErr])
       ELSE /\ ui' = [ui EXCEPT !.pc = "gStore"]
            /\ ucall' = Observed([ucall EXCEPT !.changed = TRUE])
    /\ UNCHANGED <<cfg, observe, ld, shown, writeFailed>>
    /\ UNCHANGED <<hw, queue, lastUIValue, lastHWValue,
                   lastValue, disp, opsLeft, chLog>>

\* The modes whose case of the switch calls handleMirrorMode.
ModeBroadcasts(mode) ==
    mode \in {GangModeMirror, GangModeRelative, GangModeScaled}

\* Mutant: HandleUIChange rejecting an unknown mode before it stores.
GangUIStoreKnownModeOnly ==
    /\ ui.pc = "gStore"
    /\ IF ModeBroadcasts(GangMode[ui.g])
       THEN /\ lastValue' = [lastValue EXCEPT ![ui.g] = ui.v]
            /\ ui' = [ui EXCEPT !.pc = "chLoad", !.idx = 1, !.lastErr = NoErr]
            /\ UNCHANGED ucall
       ELSE /\ UNCHANGED lastValue
            /\ ui' = UIIdle
            /\ ucall' = Observed([ucall EXCEPT !.done = TRUE, !.ret = ModeErr])
    /\ UNCHANGED <<cfg, observe, ld, shown, writeFailed>>
    /\ UNCHANGED <<hw, queue, lastUIValue, lastHWValue, disp,
                   opsLeft, chLog>>

\* GangedFader.HandleUIChange: store lastValue, then switch on the mode.
GangUIStore ==
    /\ ui.pc = "gStore"
    /\ lastValue' = [lastValue EXCEPT ![ui.g] = ui.v]
    /\ IF ModeBroadcasts(GangMode[ui.g])
       THEN /\ ui' = [ui EXCEPT !.pc = "chLoad", !.idx = 1, !.lastErr = NoErr]
            /\ UNCHANGED ucall
       ELSE /\ ui' = UIIdle
            /\ ucall' = Observed([ucall EXCEPT !.done = TRUE, !.ret = ModeErr])
    /\ UNCHANGED <<cfg, observe, ld, shown, writeFailed>>
    /\ UNCHANGED <<hw, queue, lastUIValue, lastHWValue, disp,
                   opsLeft, chLog>>

\* handleMirrorMode: lastErr keeps the latest error returned by a channel.
MirrorLastErr(lastErr, err) == IF err # NoErr THEN err ELSE lastErr

\* Mutant: handleMirrorMode returning at the first error.
MirrorStopsOnError(idx, len, err) == idx < len /\ err = NoErr

\* handleMirrorMode: whether the loop goes on after the channel at idx (of
\* len) returned err.
MirrorContinues(idx, len, err) == idx < len

\* handleMirrorMode after the channel at ui.idx returned err: the loop goes on
\* to the next channel, and after the last one the call returns lastErr.
MirrorNext(err) ==
    IF MirrorContinues(ui.idx, Len(GangChannels[ui.g]), err)
    THEN [ui EXCEPT !.pc = "chLoad", !.idx = @ + 1, !.snap = <<>>, !.w = 0,
                    !.lastErr = MirrorLastErr(@, err)]
    ELSE UIIdle

MirrorCall(call, err) ==
    Observed(IF MirrorContinues(ui.idx, Len(GangChannels[ui.g]), err)
             THEN call
             ELSE [call EXCEPT !.done = TRUE,
                               !.ret = MirrorLastErr(ui.lastErr, err)])

\* Mutant: HandleUIChange without its equality check.
ChanUINeverSkips(oldValue, newValue) == FALSE

\* MixerChannel.HandleUIChange: the value equality check on lastUIValue.
ChanUISkip(oldValue, newValue) == oldValue = newValue

ChanUILoad ==
    /\ ui.pc = "chLoad"
    /\ IF ChanUISkip(lastUIValue[UIChan], ui.v)
       THEN /\ ui' = MirrorNext(NoErr)
            /\ ucall' = MirrorCall([ucall EXCEPT !.skipped = @ \cup {UIChan}],
                                   NoErr)
            /\ chLog' = Logged(UIChan,
                   CallRec("ui", ui.v, ChanSnap(UIChan), lastUIValue[UIChan],
                           lastHWValue[UIChan], hw[ChanParam[UIChan]],
                           ui.w, FALSE, NoErr))
       ELSE /\ ui' = [ui EXCEPT !.pc = "chStore",
                                !.snap = IF observe THEN ChanSnap(UIChan)
                                                    ELSE <<>>]
            /\ UNCHANGED <<ucall, chLog>>
    /\ UNCHANGED <<cfg, observe, ld, shown, writeFailed>>
    /\ UNCHANGED <<hw, queue, lastUIValue, lastHWValue,
                   lastValue, disp, opsLeft>>

\* Mutant: HandleUIChange storing the new value in both caches.
ChanUIStoreBoth ==
    /\ ui.pc = "chStore"
    /\ lastUIValue' = [lastUIValue EXCEPT ![UIChan] = ui.v]
    /\ lastHWValue' = [lastHWValue EXCEPT ![UIChan] = ui.v]
    /\ ui' = [ui EXCEPT !.pc = "chWrite"]
    /\ UNCHANGED <<cfg, observe, ld, shown, writeFailed>>
    /\ UNCHANGED <<hw, queue, lastValue, disp,
                   opsLeft, chLog, ucall>>

\* MixerChannel.HandleUIChange: atomic.StoreInt64(&ch.lastUIValue, newValue).
ChanUIStore ==
    /\ ui.pc = "chStore"
    /\ lastUIValue' = [lastUIValue EXCEPT ![UIChan] = ui.v]
    /\ ui' = [ui EXCEPT !.pc = "chWrite"]
    /\ UNCHANGED <<cfg, observe, ld, shown, writeFailed>>
    /\ UNCHANGED <<hw, queue, lastHWValue, lastValue, disp,
                   opsLeft, chLog, ucall>>

\* Mutant: HandleUIChange restoring the old cached value when SetValue fails.
ChanUIWriteReverting(ok) ==
    /\ ui.pc = "chWrite"
    /\ SetValue(ChanParam[UIChan], ui.v, ok)
    /\ writeFailed' = (writeFailed \/ ~ok)
    /\ lastUIValue' = IF ok THEN lastUIValue
                      ELSE [lastUIValue EXCEPT ![UIChan] = ui.snap[1]]
    /\ LET err == IF ok THEN NoErr ELSE UIChan
       IN  /\ ui' = MirrorNext(err)
           /\ ucall' = MirrorCall(
                  [ucall EXCEPT !.written = @ \cup {UIChan},
                                !.failed = IF ok THEN @ ELSE @ \cup {UIChan}],
                  err)
           /\ chLog' = Logged(UIChan,
                  CallRec("ui", ui.v, ui.snap, lastUIValue'[UIChan],
                          lastHWValue[UIChan], hw'[ChanParam[UIChan]],
                          ui.w + 1, ~ok, err))
    /\ UNCHANGED <<cfg, observe, ld, shown, lastHWValue, lastValue, disp,
                   opsLeft>>

\* MixerChannel.HandleUIChange: ch.control.SetValue(newValue); on an error the
\* error is logged and returned, and the cache stays as stored.  The channel
\* call returns to handleMirrorMode.
ChanUIWrite(ok) ==
    /\ ui.pc = "chWrite"
    /\ SetValue(ChanParam[UIChan], ui.v, ok)
    /\ writeFailed' = (writeFailed \/ ~ok)
    /\ LET err == IF ok THEN NoErr ELSE UIChan
       IN  /\ ui' = MirrorNext(err)
           /\ ucall' = MirrorCall(
                  [ucall EXCEPT !.written = @ \cup {UIChan},
                                !.failed = IF ok THEN @ ELSE @ \cup {UIChan}],
                  err)
           /\ chLog' = IF observe
                       THEN Logged(UIChan,
                              CallRec("ui", ui.v, ui.snap, lastUIValue[UIChan],
                                      lastHWValue[UIChan],
                                      hw'[ChanParam[UIChan]], ui.w + 1, ~ok,
                                      err))
                       ELSE chLog
    /\ UNCHANGED <<cfg, observe, ld, shown, lastUIValue, lastHWValue,
                   lastValue, disp,
                   opsLeft>>

UIStep ==
    \/ GangUILoad
    \/ GangUIStore
    \/ ChanUILoad
    \/ ChanUIStore
    \/ \E ok \in BOOLEAN : ChanUIWrite(ok)

\* ------------------------------------------------------ the dispatcher
\* EventMonitor.handleControlChange scans the gangs in order, and each gang's
\* channels in order, for the first channel bound to the notified parameter.
OwnerGangs(p) ==
    {g \in Gangs : \E i \in DOMAIN GangChannels[g] :
                       ChanParam[GangChannels[g][i]] = p}

\* GangedFader.HandleHWChange: the first member channel with that NumID.
MemberFor(g, p) ==
    GangChannels[g][Min({i \in DOMAIN GangChannels[g] :
                            ChanParam[GangChannels[g][i]] = p})]

\* Mutant: a callback that hands a notification nobody owns to the first
\* channel of the first gang.
handleControlChangeForwardingAll ==
    /\ disp.pc = "idle"
    /\ queue # <<>>
    /\ queue' = Tail(queue)
    /\ LET p == Head(queue)[1]
           v == Head(queue)[2]
           g == IF OwnerGangs(p) = {} THEN 1 ELSE Min(OwnerGangs(p))
           c == IF OwnerGangs(p) = {} THEN GangChannels[1][1]
                                      ELSE MemberFor(g, p)
       IN  disp' = [DispIdle EXCEPT !.pc = "hLoad", !.g = g, !.c = c, !.v = v]
    /\ UNCHANGED <<cfg, observe, ld, shown, writeFailed>>
    /\ UNCHANGED <<hw, lastUIValue, lastHWValue, lastValue, ui,
                   opsLeft, chLog, ucall>>

\* Mutant: a callback that goes on scanning after the first match, so that
\* the last gang holding the parameter has the final word.
handleControlChangeLastOwner ==
    /\ disp.pc = "idle"
    /\ queue # <<>>
    /\ queue' = Tail(queue)
    /\ LET p == Head(queue)[1]
           v == Head(queue)[2]
           g == CHOOSE x \in OwnerGangs(p) : \A y \in OwnerGangs(p) : y <= x
       IN  IF OwnerGangs(p) = {}
           THEN disp' = DispIdle
           ELSE disp' = [DispIdle EXCEPT !.pc = "hLoad", !.g = g,
                                         !.c = MemberFor(g, p), !.v = v]
    /\ UNCHANGED <<cfg, observe, ld, shown, writeFailed>>
    /\ UNCHANGED <<hw, lastUIValue, lastHWValue, lastValue, ui,
                   opsLeft, chLog, ucall>>

\* The next notification is delivered to handleControlChange, which forwards
\* it to the owning gang's HandleHWChange or drops it.
handleControlChange ==
    /\ disp.pc = "idle"
    /\ queue # <<>>
    /\ queue' = Tail(queue)
    /\ LET p == Head(queue)[1]
           v == Head(queue)[2]
       IN  IF OwnerGangs(p) = {}
           THEN disp' = DispIdle
           ELSE disp' = [DispIdle EXCEPT !.pc = "hLoad",
                                         !.g = Min(OwnerGangs(p)),
                                         !.c = MemberFor(Min(OwnerGangs(p)), p),
                                         !.v = v]
    /\ UNCHANGED <<cfg, observe, ld, shown, writeFailed>>
    /\ UNCHANGED <<hw, lastUIValue, lastHWValue, lastValue, ui,
                   opsLeft, chLog, ucall>>

\* MixerChannel.HandleHWChange: the value equality check on lastHWValue.
ChanHWSkip(oldValue, newValue) == oldValue = newValue

\* Mutant: HandleHWChange without its equality check, pushing the notified
\* value back to the hardware.
ChanHWLoadFeedback ==
    /\ disp.pc = "hLoad"
    /\ SetValue(ChanParam[disp.c], disp.v, TRUE)
    /\ disp' = [disp EXCEPT !.pc = "hStoreHW",
                            !.snap = IF observe THEN ChanSnap(disp.c)
                                                ELSE <<>>]
    /\ UNCHANGED <<cfg, observe, ld, shown, writeFailed>>
    /\ UNCHANGED <<lastUIValue, lastHWValue, lastValue, ui, opsLeft, chLog,
                   ucall>>

ChanHWLoad ==
    /\ disp.pc = "hLoad"
    /\ IF ChanHWSkip(lastHWValue[disp.c], disp.v)
       THEN /\ disp' = [disp EXCEPT !.pc = "gFold"]
            /\ chLog' = Logged(disp.c,
                   CallRec("hw", disp.v, ChanSnap(disp.c), lastUIValue[disp.c],
                           lastHWValue[disp.c], hw[ChanParam[disp.c]],
                           disp.w, FALSE, NoErr))
       ELSE /\ disp' = [disp EXCEPT !.pc = "hStoreHW",
                                    !.snap = IF observe THEN ChanSnap(disp.c)
                                                        ELSE <<>>]
            /\ UNCHANGED chLog
    /\ UNCHANGED <<cfg, observe, ld, shown, writeFailed>>
    /\ UNCHANGED <<hw, queue, lastUIValue, lastHWValue,
                   lastValue, ui, opsLeft, ucall>>

\* Mutant: a store that waits until no UI call is in progress.
ChanHWStoreHWWaiting ==
    /\ disp.pc = "hStoreHW"
    /\ ui.pc = "idle"
    /\ lastHWValue' = [lastHWValue EXCEPT ![disp.c] = disp.v]
    /\ disp' = [disp EXCEPT !.pc = "hStoreUI"]
    /\ UNCHANGED <<cfg, observe, ld, shown, writeFailed>>
    /\ UNCHANGED <<hw, queue, lastUIValue, lastValue, ui,
                   opsLeft, chLog, ucall>>

\* MixerChannel.HandleHWChange: atomic.StoreInt64(&ch.lastHWValue, newValue).
ChanHWStoreHW ==
    /\ disp.pc = "hStoreHW"
    /\ lastHWValue' = [lastHWValue EXCEPT ![disp.c] = disp.v]
    /\ disp' = [disp EXCEPT !.pc = "hStoreUI"]
    /\ UNCHANGED <<cfg, observe, ld, shown, writeFailed>>
    /\ UNCHANGED <<hw, queue, lastUIValue, lastValue, ui,
                   opsLeft, chLog, ucall>>

\* Mutant: HandleHWChange writing the new value back to the hardware.
ChanHWStoreUIWriteBack ==
    /\ disp.pc = "hStoreUI"
    /\ lastUIValue' = [lastUIValue EXCEPT ![disp.c] = disp.v]
    /\ SetValue(ChanParam[disp.c], disp.v, TRUE)
    /\ disp' = [disp EXCEPT !.pc = "gFold", !.snap = <<>>, !.w = @ + 1]
    /\ chLog' = IF observe
                THEN Logged(disp.c,
                       CallRec("hw", disp.v, disp.snap, lastUIValue'[disp.c],
                               lastHWValue[disp.c], hw'[ChanParam[disp.c]],
                               disp.w + 1, FALSE, NoErr))
                ELSE chLog
    /\ UNCHANGED <<cfg, observe, ld, shown, writeFailed>>
    /\ UNCHANGED <<lastHWValue, lastValue, ui, opsLeft, ucall>>

\* Mutant: HandleHWChange updating lastHWValue only.
ChanHWStoreUIOmitted ==
    /\ disp.pc = "hStoreUI"
    /\ disp' = [disp EXCEPT !.pc = "gFold", !.snap = <<>>]
    /\ chLog' = IF observe
                THEN Logged(disp.c,
                       CallRec("hw", disp.v, disp.snap, lastUIValue[disp.c],
                               lastHWValue[disp.c], hw[ChanParam[disp.c]],
                               disp.w, FALSE, NoErr))
                ELSE chLog
    /\ UNCHANGED <<cfg, observe, ld, shown, writeFailed>>
    /\ UNCHANGED <<hw, queue, lastUIValue, lastHWValue, lastValue, ui,
                   opsLeft, ucall>>

\* MixerChannel.HandleHWChange: atomic.StoreInt64(&ch.lastUIValue, newValue);
\* the channel call returns.
ChanHWStoreUI ==
    /\ disp.pc = "hStoreUI"
    /\ lastUIValue' = [lastUIValue EXCEPT ![disp.c] = disp.v]
    /\ disp' = [disp EXCEPT !.pc = "gFold", !.snap = <<>>]
    /\ chLog' = IF observe
                THEN Logged(disp.c,
                       CallRec("hw", disp.v, disp.snap, lastUIValue'[disp.c],
                               lastHWValue[disp.c], hw[ChanParam[disp.c]],
                               disp.w, FALSE, NoErr))
                ELSE chLog
    /\ UNCHANGED <<cfg, observe, ld, shown, writeFailed>>
    /\ UNCHANGED <<hw, queue, lastHWValue, lastValue, ui,
                   opsLeft, ucall>>

\* Mutant: HandleHWChange re-deriving lastValue from the first channel.
GangHWFoldFromFirst ==
    /\ disp.pc = "gFold"
    /\ lastValue' = [lastValue EXCEPT
                        ![disp.g] = lastUIValue[GangChannels[disp.g][1]]]
    /\ disp' = DispIdle
    /\ UNCHANGED <<cfg, observe, ld, shown, writeFailed>>
    /\ UNCHANGED <<hw, queue, lastUIValue, lastHWValue, ui,
                   opsLeft, chLog, ucall>>

\* GangedFader.HandleHWChange, after the channel call: in mirror mode the
\* gang's lastValue takes the notified value; the callback returns.
GangHWFold ==
    /\ disp.pc = "gFold"
    /\ IF GangMode[disp.g] = GangModeMirror
       THEN lastValue' = [lastValue EXCEPT ![disp.g] = disp.v]
       ELSE UNCHANGED lastValue
    /\ disp' = DispIdle
    /\ UNCHANGED <<cfg, observe, ld, shown, writeFailed>>
    /\ UNCHANGED <<hw, queue, lastUIValue, lastHWValue, ui,
                   opsLeft, chLog, ucall>>

DispStep ==
    \/ handleControlChange
    \/ ChanHWLoad
    \/ ChanHWStoreHW
    \/ ChanHWStoreUI
    \/ GangHWFold

\* Whether gang g has a member channel on parameter p.
HasMember(g, p) ==
    \E i \in DOMAIN GangChannels[g] : ChanParam[GangChannels[g][i]] = p

\* GangedFader.HandleHWChange(numID, newValue) called on gang g by a caller
\* of the package.
GangHandleHWChange(g, p, v) ==
    /\ disp.pc = "idle"
    /\ ui.pc = "idle"
    /\ opsLeft > 0
    /\ opsLeft' = opsLeft - 1
    /\ disp' = [DispIdle EXCEPT !.pc = "gScan", !.g = g, !.p = p, !.v = v]
    /\ UNCHANGED <<cfg, observe, ld, shown, writeFailed>>
    /\ UNCHANGED <<hw, queue, lastUIValue, lastHWValue, lastValue, ui,
                   chLog, ucall>>

\* Mutant: HandleHWChange updating lastValue whether or not a member matched.
GangHWScanFolding ==
    /\ disp.pc = "gScan"
    /\ IF HasMember(disp.g, disp.p)
       THEN /\ disp' = [DispIdle EXCEPT !.pc = "hLoad", !.g = disp.g,
                                        !.c = MemberFor(disp.g, disp.p),
                                        !.v = disp.v]
            /\ UNCHANGED lastValue
       ELSE /\ disp' = [DispIdle EXCEPT !.g = disp.g, !.v = disp.v]
            /\ lastValue' = [lastValue EXCEPT ![disp.g] = disp.v]
    /\ UNCHANGED <<cfg, observe, ld, shown, writeFailed>>
    /\ UNCHANGED <<hw, queue, lastUIValue, lastHWValue, ui, opsLeft, chLog,
                   ucall>>

\* GangedFader.HandleHWChange: the loop over gf.channels looks for the member
\* with that NumID; without one the call returns (disp keeps the gang and the
\* value of the call that has returned).
GangHWScan ==
    /\ disp.pc = "gScan"
    /\ IF HasMember(disp.g, disp.p)
       THEN disp' = [DispIdle EXCEPT !.pc = "hLoad", !.g = disp.g,
                                    !.c = MemberFor(disp.g, disp.p),
                                    !.v = disp.v]
       ELSE disp' = [DispIdle EXCEPT !.g = disp.g, !.v = disp.v]
    /\ UNCHANGED <<cfg, observe, ld, shown, writeFailed>>
    /\ UNCHANGED <<hw, queue, lastUIValue, lastHWValue, lastValue, ui,
                   opsLeft, chLog, ucall>>

\* ------------------------------------------------------ the environment
\* Other software or the device itself changes parameter p to v; the provider
\* notifies the change.
ExternalChange(p, v) ==
    /\ opsLeft > 0
    /\ v # hw[p]
    /\ v \in ControlMin(p)..ControlMax(p)
    /\ opsLeft' = opsLeft - 1
    /\ hw' = [hw EXCEPT ![p] = v]
    /\ queue' = Append(queue, <<p, v>>)
    /\ UNCHANGED <<cfg, observe, ld, shown, writeFailed>>
    /\ UNCHANGED <<lastUIValue, lastHWValue, lastValue, ui,
                   disp, chLog, ucall>>

\* ------------------------------------------------- the monitor's life
\* EventMonitor.Start: spawns the goroutine that runs WatchControls and
\* returns nil at once, whatever happens to the goroutine later.
Start ==
    /\ ld.pc = "returned"
    /\ ld' = [f \in DOMAIN ld \cup {"err"} |->
                 IF f = "pc" THEN "monitoring"
                 ELSE IF f = "err" THEN NoErr
                 ELSE ld[f]]
    /\ UNCHANGED <<cfg, observe, shown, writeFailed>>
    /\ UNCHANGED <<hw, queue, lastUIValue, lastHWValue, lastValue, ui, disp,
                   opsLeft, chLog, ucall>>

\* The goroutine after WatchControls has returned; left records how many
\* calls and changes were still to come when it returned.
StreamFailed(left) ==
    [pc |-> "dead", g |-> 0, p |-> 0, c |-> 0, v |-> 0, w |-> 0,
     snap |-> <<>>, left |-> left]

\* The subscription stream fails between two notifications: WatchControls
\* returns the error, the goroutine logs it and ends.
StreamFails ==
    /\ ld.pc = "monitoring"
    /\ disp.pc = "idle"
    /\ disp' = StreamFailed(opsLeft)
    /\ UNCHANGED <<cfg, observe, ld, shown, writeFailed>>
    /\ UNCHANGED <<hw, queue, lastUIValue, lastHWValue, lastValue, ui,
                   opsLeft, chLog, ucall>>

\* Mutant: a goroutine that subscribes again after the failure and hands the
\* next notification to the callback.
Resubscribed ==
    /\ disp.pc = "dead"
    /\ queue # <<>>
    /\ queue' = Tail(queue)
    /\ LET p == Head(queue)[1]
           v == Head(queue)[2]
       IN  IF OwnerGangs(p) = {}
           THEN disp' = DispIdle
           ELSE disp' = [DispIdle EXCEPT !.pc = "hLoad",
                                         !.g = Min(OwnerGangs(p)),
                                         !.c = MemberFor(Min(OwnerGangs(p)), p),
                                         !.v = v]
    /\ UNCHANGED <<cfg, observe, ld, shown, writeFailed>>
    /\ UNCHANGED <<hw, lastUIValue, lastHWValue, lastValue, ui,
                   opsLeft, chLog, ucall>>

\* A notification raised after the goroutine has ended: nothing calls
\* WatchControls again, so nobody receives it.
Undelivered ==
    /\ disp.pc = "dead"
    /\ queue # <<>>
    /\ queue' = Tail(queue)
    /\ UNCHANGED <<cfg, observe, ld, shown, writeFailed>>
    /\ UNCHANGED <<hw, lastUIValue, lastHWValue, lastValue, ui, disp,
                   opsLeft, chLog, ucall>>

\* ------------------------------------------------------------- assembly
\* ControlMapper.LoadGangs walks the configuration entry by entry; the
\* configuration is read as it is walked, so ld.conf holds the part walked so
\* far.  The card: "L" and "R" are the integer controls with NumID 1 and 2,
\* "Sw" is a boolean control, "Dead" an integer control whose GetValue fails,
\* and "Ghost" names no control of the card.
runtimeVars == <<cfg, observe, hw, queue, lastUIValue, lastHWValue, lastValue,
                 ui, disp, opsLeft, writeFailed, chLog, ucall, shown>>

CtlNames == {"L", "R", "Sw", "Dead", "Ghost"}
Nil == "nil"
OnCard(name) == name \in {"L", "R", "Sw", "Dead"}
NumID(name) == CASE name = "L" -> 1 [] name = "R" -> 2 [] name = "Sw" -> 3
                 [] OTHER -> 4
ControlType(name) == CASE name = "Sw" -> "boolean" [] name = "R" -> "integer64"
                       [] OTHER -> "integer"
Readable(name) == name # "Dead"
ReadValue(name) == IF NumID(name) \in Params THEN hw[NumID(name)] ELSE 0

\* The control types LoadGangs accepts for a gang control.
TypeSupported(type) == type \in {"integer", "integer64"}

NoChannel == [control |-> Nil, lastUIValue |-> 0, lastHWValue |-> 0]
NoGang == [mode |-> "", channels |-> <<>>, levelControls |-> <<>>,
           min |-> 0, max |-> 0, lastValue |-> 0]

\* Mutant: NewMixerChannel going on with a zero value when the read fails.
NewMixerChannelIgnoringReadError(control) ==
    IF control = Nil
    THEN [ch |-> NoChannel, err |-> "control cannot be nil", reads |-> 0]
    ELSE [ch |-> [control |-> control,
                  lastUIValue |-> IF Readable(control)
                                  THEN ReadValue(control) ELSE 0,
                  lastHWValue |-> IF Readable(control)
                                  THEN ReadValue(control) ELSE 0],
          err |-> "", reads |-> 1]

\* NewMixerChannel: the channel (nil on an error), the error ("" for nil) and
\* the number of GetValue calls made.
NewMixerChannel(control) ==
    IF control = Nil
    THEN [ch |-> NoChannel, err |-> "control cannot be nil", reads |-> 0]
    ELSE IF ~Readable(control)
    THEN [ch |-> NoChannel, err |-> "failed to read initial value",
          reads |-> 1]
    ELSE [ch |-> [control |-> control,
                  lastUIValue |-> ReadValue(control),
                  lastHWValue |-> ReadValue(control)],
          err |-> "", reads |-> 1]

\* Mutant: NewGangedFader taking its range and value from the last channel.
NewGangedFaderFromLast(mode, channels, levelControls) ==
    IF Len(channels) < 1
    THEN [gf |-> NoGang, err |-> "ganged fader must have at least 1 channels"]
    ELSE [gf |-> [mode |-> mode, channels |-> channels,
                  levelControls |-> levelControls,
                  min |-> ControlMin(NumID(channels[Len(channels)].control)),
                  max |-> ControlMax(NumID(channels[Len(channels)].control)),
                  lastValue |-> channels[Len(channels)].lastUIValue],
          err |-> ""]

\* NewGangedFader: the fader (nil on an error) and the error.
NewGangedFader(mode, channels, levelControls) ==
    IF Len(channels) < 1
    THEN [gf |-> NoGang, err |-> "ganged fader must have at least 1 channels"]
    ELSE [gf |-> [mode |-> mode, channels |-> channels,
                  levelControls |-> levelControls,
                  min |-> ControlMin(NumID(channels[1].control)),
                  max |-> ControlMax(NumID(channels[1].control)),
                  lastValue |-> channels[1].lastUIValue],
          err |-> ""]

\* The error LoadGangs returns: the gang, the entry ("control", "level" or
\* "fader") and its place in the gang, and the cause.
LoadErr(i, entry, j, cause) ==
    [gang |-> i, entry |-> entry, idx |-> j, cause |-> cause]
LoadOK == LoadErr(0, "", 0, "")

NoProbe == [ch |-> NoChannel, err |-> "", reads |-> 0]
LoadStart == [pc |-> "gang", left |-> MaxLoad, conf |-> <<>>, chans |-> <<>>,
              lvls |-> <<>>, gangs |-> <<>>, err |-> LoadOK, reads |-> 0,
              arg |-> Nil, probe |-> NoProbe]

\* Mutant: LoadGangs returning the gangs built so far along with the error.
LoadFailedKeepingGangs(st, err) ==
    [st EXCEPT !.pc = "returned", !.err = err]

\* LoadGangs: return nil, err.
LoadFailed(st, err) ==
    [st EXCEPT !.pc = "returned", !.gangs = <<>>, !.err = err]

\* for i, gangControl := range cm.config.GangControls: the next gang.
LoadNextGang ==
    /\ ld.pc = "gang"
    /\ ld.left > 0
    /\ ld' = [ld EXCEPT !.pc = "ctl", !.left = @ - 1,
                        !.conf = Append(@, [controls |-> <<>>,
                                            levels |-> <<>>]),
                        !.chans = <<>>, !.lvls = <<>>]
    /\ UNCHANGED runtimeVars

\* for j, ctrlName := range gangControl.Controls: FindControl, the type
\* check, NewMixerChannel, append.
LoadControl(name) ==
    /\ ld.pc = "ctl"
    /\ ld.left > 0
    /\ LET i == Len(ld.conf)
           j == Len(ld.conf[i].controls) + 1
           seen == [ld EXCEPT !.left = @ - 1,
                              !.conf[i].controls = Append(@, name)]
           made == NewMixerChannel(name)
       IN  ld' = IF ~OnCard(name)
                 THEN LoadFailed(seen, LoadErr(i, "control", j,
                                               "not found on hardware"))
                 ELSE IF ~TypeSupported(ControlType(name))
                 THEN LoadFailed(seen, LoadErr(i, "control", j,
                                               "type not supported"))
                 ELSE IF made.err # ""
                 THEN LoadFailed([seen EXCEPT !.reads = @ + made.reads],
                                 LoadErr(i, "control", j,
                                         "failed to create channel"))
                 ELSE [seen EXCEPT !.chans = Append(@, made.ch),
                                   !.reads = @ + made.reads]
    /\ UNCHANGED runtimeVars

\* The controls of the gang are through: on to its level names.
LoadControlsDone ==
    /\ ld.pc = "ctl"
    /\ ld' = [ld EXCEPT !.pc = "lvl"]
    /\ UNCHANGED runtimeVars

\* for j, levelName := range gangControl.Levels: FindControl, append.
LoadLevel(name) ==
    /\ ld.pc = "lvl"
    /\ ld.left > 0
    /\ LET i == Len(ld.conf)
           j == Len(ld.conf[i].levels) + 1
           seen == [ld EXCEPT !.left = @ - 1,
                              !.conf[i].levels = Append(@, name)]
       IN  ld' = IF ~OnCard(name)
                 THEN LoadFailed(seen, LoadErr(i, "level", j,
                                               "not found on hardware"))
                 ELSE [seen EXCEPT !.lvls = Append(@, name)]
    /\ UNCHANGED runtimeVars

\* The levels are through: NewGangedFader in mirror mode, append.
LoadNewGang ==
    /\ ld.pc = "lvl"
    /\ LET made == NewGangedFader(GangModeMirror, ld.chans, ld.lvls)
       IN  ld' = IF made.err # ""
                 THEN LoadFailed(ld, LoadErr(Len(ld.conf), "fader", 0,
                                             made.err))
                 ELSE [ld EXCEPT !.pc = "gang",
                                 !.gangs = Append(@, made.gf)]
    /\ UNCHANGED runtimeVars

\* The configuration holds no further gang: return gangs, nil.
LoadReturn ==
    /\ ld.pc = "gang"
    /\ ld' = [ld EXCEPT !.pc = "returned"]
    /\ UNCHANGED runtimeVars

\* NewMixerChannel called on its own, with a control of the card or nil.
ConstructChannel(control) ==
    /\ ld.pc = "gang"
    /\ ld.conf = <<>>
    /\ ld' = [ld EXCEPT !.pc = "probed", !.arg = control,
                        !.probe = NewMixerChannel(control),
                        !.reads = NewMixerChannel(control).reads]
    /\ UNCHANGED runtimeVars

\* ---------------------------------------------------------- the display
\* GangedFader.createFaderParams: the Format function turns the fader's
\* normalized position into the text shown with it.  A position is the
\* fraction k/NormSteps; the ranges come from Control.Min and Control.Max of
\* channels[0], which NewGangedFader takes as they are (any int64 pair).
engineVars == <<cfg, observe, hw, queue, lastUIValue, lastHWValue, lastValue,
                ui, disp, opsLeft, writeFailed, chLog, ucall, ld>>

Positions == 0..NormSteps
FaderRanges ==
    {r \in ((-1)..MaxVal) \X ((-1)..(MaxVal + 1)) : r[1] <= r[2]}
Units == {"db", "raw", ""}

\* Go's int(x) of a float: the fraction n/d (d > 0) truncated toward zero.
Trunc(n, d) == IF n >= 0 THEN n \div d ELSE -((-n) \div d)

\* rawValue := normalized*(max-min) + min, as the numerator over NormSteps.
RawNum(min, max, k) == k * (max - min) + min * NormSteps

\* The text for the muted fader.
Silent == "-inf dB"

\* Sprintf("%.2f dB", 20*log10(rawValue/max) + 12) for rawValue =
\* num/NormSteps: the quotient by 0 is NaN or an infinity, log10 of a negative
\* number is NaN, log10(0) is -Inf, log10(1) is 0.  Of any other ratio only
\* the side of 12 dB it falls on is kept.
DecibelText(num, max) ==
    IF max = 0
    THEN IF num > 0 THEN "+Inf dB" ELSE "NaN dB"
    ELSE IF num = NormSteps * max THEN "12.00 dB"
    ELSE IF num = 0 THEN "-Inf dB"
    ELSE IF (num < 0) # (max < 0) THEN "NaN dB"
    ELSE IF (IF num < 0 THEN -num ELSE num)
              < NormSteps * (IF max < 0 THEN -max ELSE max)
    THEN "below 12 dB"
    ELSE "above 12 dB"

\* case "db": the mute check against min, then the logarithmic conversion.
FormatDb(min, max, k) ==
    IF RawNum(min, max, k) <= min * NormSteps
    THEN Silent
    ELSE DecibelText(RawNum(min, max, k), max)

\* case "raw" and default: the integer Sprintf("%d") prints.
FormatRaw(min, max, k) == Trunc(RawNum(min, max, k), NormSteps)

Format(unit, min, max, k) ==
    IF unit = "db" THEN FormatDb(min, max, k) ELSE FormatRaw(min, max, k)

\* A fader with its range and unit, its knob at no position yet.
Fader(unit, min, max) ==
    [pc |-> "fader", unit |-> unit, min |-> min, max |-> max, k |-> 0,
     text |-> ""]

\* The fader is drawn with its knob at position k/NormSteps and calls Format.
FormatLabel(k) ==
    /\ shown.pc \in {"fader", "label"}
    /\ shown' = [shown EXCEPT !.pc = "label", !.k = k,
                              !.text = Format(shown.unit, shown.min,
                                              shown.max, k)]
    /\ UNCHANGED engineVars

\* ------------------------------------------------------ the level colour
\* A read of a level control (ctl.GetValue) returns a value and no error,
\* or an error.
LevelValues == {-1, 0, 1, 2, 8, 64, 256, 512, 1024, 2048, 3000, 4094, 4095,
                5000}
ReadOutcomes ==
    {[val |-> v, err |-> FALSE] : v \in LevelValues}
        \cup {[val |-> 0, err |-> TRUE]}

\* The sequences of up to n elements of S.
RECURSIVE SeqsUpTo(_, _)
SeqsUpTo(S, n) ==
    IF n = 0 THEN {<<>>}
    ELSE LET shorter == SeqsUpTo(S, n - 1)
         IN  shorter \cup {Append(q, x) : q \in {r \in shorter : Len(r) = n - 1},
                                          x \in S}

\* Mutant: a loop that keeps the value read last.
RECURSIVE LastLevelFrom(_, _, _)
LastLevelFrom(reads, i, maxLevel) ==
    IF i > Len(reads) THEN maxLevel
    ELSE LastLevelFrom(reads, i + 1,
                       IF ~reads[i].err THEN reads[i].val ELSE maxLevel)

\* GetMaxLevel's loop: maxLevel starts at 0 and takes every value that was
\* read without error and is greater.
RECURSIVE MaxLevelFrom(_, _, _)
MaxLevelFrom(reads, i, maxLevel) ==
    IF i > Len(reads) THEN maxLevel
    ELSE MaxLevelFrom(reads, i + 1,
                      IF ~reads[i].err /\ reads[i].val > maxLevel
                      THEN reads[i].val ELSE maxLevel)

\* GetMaxLevel, the reads of the level controls having these outcomes.
GetMaxLevel(reads) ==
    IF Len(reads) = 0
    THEN [level |-> 0, ok |-> FALSE]
    ELSE [level |-> MaxLevelFrom(reads, 1, 0), ok |-> TRUE]

\* 20*log10(level/4095) in tenths of a decibel, rounded, for the levels of
\* LevelValues above 0 (levelMax is 4095, the range of a level control).
DeciDb(level) ==
    CASE level = 1 -> -722
      [] level = 2 -> -662
      [] level = 8 -> -542
      [] level = 64 -> -361
      [] level = 256 -> -241
      [] level = 512 -> -181
      [] level = 1024 -> -120
      [] level = 2048 -> -60
      [] level = 3000 -> -27
      [] level = 4094 -> 0
      [] level = 4095 -> 0
      [] level = 5000 -> 17

\* normalized, in 960ths: 0 at or below levelMin and for levelMax <= 0, else
\* (db + 96)/96 with db limited to -96 below, the result limited to [0, 1].
Normalized(level, levelMin, levelMax) ==
    IF level <= levelMin \/ levelMax <= 0 THEN 0
    ELSE LET db == IF DeciDb(level) < -960 THEN -960 ELSE DeciDb(level)
             n == db + 960
         IN  IF n < 0 THEN 0 ELSE IF n > 960 THEN 960 ELSE n

\* One is the value 1.0 of v and of the colour components.
One == 28800

\* Mutant: a third segment whose v falls from 0.8 to 0.6.
SegmentValueFalling(n) ==
    IF n <= 480 THEN 8640 + 18 * n
    ELSE IF n <= 768 THEN 17280 + 20 * (n - 480)
    ELSE 23040 - 30 * (n - 768)

\* v of the three segments: 0.3 + (n/0.5)*0.3, 0.6 + t*0.2 with
\* t = (n - 0.5)/0.3, 0.8 + t*0.2 with t = (n - 0.8)/0.2.
SegmentValue(n) ==
    IF n <= 480 THEN 8640 + 18 * n
    ELSE IF n <= 768 THEN 17280 + 20 * (n - 480)
    ELSE 23040 + 30 * (n - 768)

\* h of the three segments, in 576ths of a sextant of the colour wheel (60
\* degrees): 120, 120 - t*60, 60 - t*60 degrees.
SegmentHue(n) ==
    IF n <= 480 THEN 1152
    ELSE IF n <= 768 THEN 1152 - 2 * (n - 480)
    ELSE 576 - 3 * (n - 768)

\* imgui.ColorConvertHSVtoRGB with s = 1, for hues up to 120 degrees: the
\* sextant i and the fraction f of h, p = 0, q = v*(1-f), t = v*f.
HSVtoRGB(h, v) ==
    LET i == h \div 576
        f == h % 576
    IN  CASE i = 0 -> [r |-> v, g |-> (v * f) \div 576, b |-> 0]
          [] i = 1 -> [r |-> (v * (576 - f)) \div 576, g |-> v, b |-> 0]
          [] i = 2 -> [r |-> 0, g |-> v, b |-> (v * f) \div 576]

Black == [r |-> 0, g |-> 0, b |-> 0]
NoColour == [r |-> -1, g |-> -1, b |-> -1]

\* The colour GetLevelColor computes from the level GetMaxLevel returned.
LevelColor(level, levelMin, levelMax) ==
    IF level = 0 THEN Black
    ELSE LET n == Normalized(level, levelMin, levelMax)
         IN  HSVtoRGB(SegmentHue(n), SegmentValue(n))

\* A gang with its level controls, their range taken from the first one.
Meter(numLevels, levelMin, levelMax) ==
    [pc |-> "meter", numLevels |-> numLevels, levelMin |-> levelMin,
     levelMax |-> levelMax, reads |-> <<>>, level |-> 0, ok |-> FALSE,
     colour |-> NoColour]

\* GetLevelColor: GetMaxLevel reads every level control (reads are the
\* outcomes); nil without level controls, else the colour of the level.
GetLevelColor(reads) ==
    /\ shown.pc = "meter"
    /\ Len(reads) = shown.numLevels
    /\ LET got == GetMaxLevel(reads)
       IN  shown' = [shown EXCEPT
                        !.pc = "colour",
                        !.reads = reads,
                        !.level = got.level,
                        !.ok = got.ok,
                        !.colour = IF got.ok
                                   THEN LevelColor(got.level, shown.levelMin,
                                                   shown.levelMax)
                                   ELSE NoColour]
    /\ UNCHANGED engineVars

\* SessionMixer.Draw: the fader is drawn with the params of this frame; the
\* next frame takes the params and the level colour anew.
FaderDrawn ==
    /\ shown.pc = "colour"
    /\ shown' = Meter(shown.numLevels, shown.levelMin, shown.levelMax)
    /\ UNCHANGED engineVars

\* ------------------------------------------------------- specifications
\* The two paths interleave at every atomic load and store.
Next ==
    \/ \E g \in Gangs, v \in FaderValues : Draw(g, v)
    \/ UIStep
    \/ DispStep
    \/ \E p \in Params, v \in Values : ExternalChange(p, v)

Spec == Init /\ [][Next]_vars

\* Calls never overlap: each call of either path runs to completion before
\* the next call or hardware change (what a sequential caller of the two
\* paths sees).  The history variables are recorded here.
SeqNext ==
    \/ disp.pc = "idle" /\ \E g \in Gangs, v \in FaderValues : Draw(g, v)
    \/ disp.pc = "idle" /\ UIStep
    \/ ui.pc = "idle" /\ DispStep
    \/ /\ ui.pc = "idle"
       /\ disp.pc = "idle"
       /\ \E p \in Params, v \in Values : ExternalChange(p, v)

SeqSpec == SeqInit /\ [][SeqNext]_vars

\* The two paths interleaved at every atomic load and store, with the calls
\* recorded, on the two faders of configuration 2: channel 1 is the channel
\* the notifications of parameter 1 go to, and both channels write it.
\* Other software changes the parameter the channels are bound to (the
\* notifications of a parameter no gang holds are dropped).
LogInit == AssembledFrom({2}) /\ observe = TRUE

LogNext ==
    \/ \E g \in Gangs, v \in FaderValues : Draw(g, v)
    \/ UIStep
    \/ DispStep
    \/ \E c \in Chans, v \in Values : ExternalChange(ChanParam[c], v)

LogSpec == LogInit /\ [][LogNext]_vars

\* The dispatcher and the UI path are scheduled fairly: a goroutine that can
\* take a step eventually takes it, and a call in progress on the UI path
\* runs on.  The user and other software need not act at all.
FairSpec == Spec /\ WF_vars(UIStep) /\ WF_vars(DispStep)

\* Sequential calls on faders built over controls of equal ranges
\* (configuration 1) and of different ranges (configuration 3).
RangeInit == AssembledFrom({1, 3}) /\ observe = FALSE

RangeSpec == RangeInit /\ [][SeqNext]_vars

\* Sequential calls on a gang of each mode: mirror (configuration 1),
\* relative (configuration 4) and scaled (configuration 5), over the same two
\* channels.
ModeInit == AssembledFrom({1, 4, 5}) /\ observe = FALSE

ModeSpec == ModeInit /\ [][SeqNext]_vars

\* The same with the calls recorded.
ModeLogInit == AssembledFrom({1, 4, 5}) /\ observe = TRUE

ModeLogSpec == ModeLogInit /\ [][SeqNext]_vars

\* Sequential calls, recorded, on a gang of a mode the switch of
\* HandleUIChange has no case for (configuration 6) and on the mirror gang
\* over the same channels.
OtherModeInit == AssembledFrom({1, 6}) /\ observe = TRUE

OtherModeSpec == OtherModeInit /\ [][SeqNext]_vars

\* The gangs of configuration 2 called as a caller of the package may call
\* them: besides the program's own flow, Gang.HandleHWChange with any
\* parameter, also one the gang has no channel for.
ApiInit == AssembledFrom({2}) /\ observe = FALSE

ApiNext ==
    \/ SeqNext
    \/ \E g \in Gangs, p \in Params, v \in Values : GangHandleHWChange(g, p, v)
    \/ GangHWScan

ApiSpec == ApiInit /\ [][ApiNext]_vars

\* The program from the return of LoadGangs on: Start, then the two paths
\* interleaved at every atomic load and store.
RunNext ==
    \/ Start
    \/ ld.pc = "monitoring" /\ Next

RunSpec == Init /\ [][RunNext]_vars

\* The program from the return of LoadGangs on: Start, then sequential calls
\* as in SeqSpec until the stream fails, and the UI path and the hardware
\* after the failure.
FailInit == Assembled /\ observe = FALSE

FailNext ==
    \/ Start
    \/ ld.pc = "monitoring" /\ SeqNext
    \/ StreamFails
    \/ disp.pc = "dead" /\ \E g \in Gangs, v \in FaderValues : Draw(g, v)
    \/ disp.pc = "dead" /\ UIStep
    \/ /\ disp.pc = "dead"
       /\ ui.pc = "idle"
       /\ \E p \in Params, v \in Values : ExternalChange(p, v)
    \/ Undelivered

FailSpec == FailInit /\ [][FailNext]_vars

\* The label of one fader of any range and unit, at every position.
TaperInit ==
    /\ cfg = 1
    /\ observe = FALSE
    /\ hw = [p \in Params |-> 0]
    /\ queue = <<>>
    /\ lastUIValue = <<>>
    /\ lastHWValue = <<>>
    /\ lastValue = <<>>
    /\ ui = UIIdle
    /\ disp = DispIdle
    /\ opsLeft = 0
    /\ writeFailed = FALSE
    /\ chLog = <<>>
    /\ ucall = NoCall
    /\ ld = Loaded
    /\ shown \in {Fader(u, r[1], r[2]) : u \in Units, r \in FaderRanges}

TaperNext == \E k \in Positions : FormatLabel(k)

TaperSpec == TaperInit /\ [][TaperNext]_vars

\* The level colour of one gang with up to MaxLevels level controls, whose
\* range is that of the card's level controls (0..4095), starts above 0, or
\* is empty.
LevelInit ==
    /\ cfg = 1
    /\ observe = FALSE
    /\ hw = [p \in Params |-> 0]
    /\ queue = <<>>
    /\ lastUIValue = <<>>
    /\ lastHWValue = <<>>
    /\ lastValue = <<>>
    /\ ui = UIIdle
    /\ disp = DispIdle
    /\ opsLeft = 0
    /\ writeFailed = FALSE
    /\ chLog = <<>>
    /\ ucall = NoCall
    /\ ld = Loaded
    /\ shown \in {Meter(n, r[1], r[2]) :
                     n \in 0..MaxLevels,
                     r \in {<<0, 4095>>, <<64, 4095>>, <<0, 0>>}}

LevelNext ==
    \/ \E reads \in SeqsUpTo(ReadOutcomes, MaxLevels) : GetLevelColor(reads)
    \/ FaderDrawn

LevelSpec == LevelInit /\ [][LevelNext]_vars

\* LoadGangs on every configuration of up to MaxLoad entries, and
\* NewMixerChannel on its own.  Nothing is built when it starts.
BuildInit ==
    /\ cfg \in {1, 3}
    /\ observe = FALSE
    /\ hw \in {h \in [Params -> {0, MaxVal}] :
                  h[1] = 0 /\ \A p \in Params : h[p] <= ControlMax(p)}
    /\ queue = <<>>
    /\ lastUIValue = <<>>
    /\ lastHWValue = <<>>
    /\ lastValue = <<>>
    /\ ui = UIIdle
    /\ disp = DispIdle
    /\ opsLeft = 0
    /\ writeFailed = FALSE
    /\ chLog = <<>>
    /\ ucall = NoCall
    /\ ld = LoadStart
    /\ shown = NoDisplay

BuildNext ==
    \/ LoadNextGang
    \/ \E name \in CtlNames : LoadControl(name)
    \/ LoadControlsDone
    \/ \E name \in CtlNames : LoadLevel(name)
    \/ LoadNewGang
    \/ LoadReturn
    \/ \E control \in (CtlNames \ {"Ghost"}) \cup {Nil} :
           ConstructChannel(control)

BuildSpec == BuildInit /\ [][BuildNext]_vars

\* ------------------------------------------------------------ reading
\* MixerChannel.GetCurrentValue and GangedFader.GetCurrentValue.
ChanGetCurrentValue(c) == lastUIValue[c]
GangGetCurrentValue(g) == lastValue[g]

\* The last completed call of channel c, and the pair of its last two.
HasLast(c) == Len(chLog[c]) >= 1
LastCall(c) == chLog[c][Len(chLog[c])]
HasPair(c) == Len(chLog[c]) = 2
FirstOfPair(c) == chLog[c][1]
SecondOfPair(c) == chLog[c][2]

\* Nothing in progress and nothing in flight.
Quiescent == ui.pc = "idle" /\ disp.pc = "idle" /\ queue = <<>>

\* ------------------------------------------------------------- claims

\* C1: the hardware path never writes to the hardware: no SetValue call is
\* issued during a dispatcher call (Gang.HandleHWChange and the
\* Channel.HandleHWChange in it), and a Channel.HandleUIChange(v) with v
\* different from the cached UI value followed at once, on that channel, by
\* HandleHWChange(v) issues exactly one write in total.
C1_HardwarePathNeverWrites ==
    /\ disp.w = 0
    /\ \A c \in Chans : \A i \in DOMAIN chLog[c] :
           chLog[c][i].k = "hw" => chLog[c][i].w = 0
    /\ \A c \in Chans :
           (/\ HasPair(c)
            /\ FirstOfPair(c).k = "ui"
            /\ FirstOfPair(c).differed
            /\ SecondOfPair(c).k = "hw"
            /\ SecondOfPair(c).v = FirstOfPair(c).v)
           => FirstOfPair(c).w + SecondOfPair(c).w = 1

\* C1 witness: a changed HandleUIChange(v) whose write succeeded, then the
\* echo HandleHWChange(v) on the same channel.
C1_Witness ==
    \E c \in Chans :
        /\ HasPair(c)
        /\ FirstOfPair(c).k = "ui"
        /\ FirstOfPair(c).differed
        /\ ~FirstOfPair(c).wfail
        /\ SecondOfPair(c).k = "hw"
        /\ SecondOfPair(c).v = FirstOfPair(c).v

\* C2: with a provider that echoes every write, the closed loop comes to
\* rest: eventually, and from then on, no call is in progress and no
\* notification is in flight.
C2_ComesToRest == <>[]Quiescent

\* C2 witness: the user has stopped and the dispatcher is at the equality
\* check with the echo of the value the UI path wrote to that channel.
C2_Witness ==
    /\ opsLeft = 0
    /\ ui.pc = "idle"
    /\ disp.pc = "hLoad"
    /\ lastUIValue[disp.c] = disp.v
    /\ lastHWValue[disp.c] # disp.v

\* C3: of two consecutive Channel.HandleUIChange(v) calls on a channel with
\* the same v, the second issues no write and changes neither cache nor the
\* register, and the first issues one write if v differed from the cached UI
\* value and none if it did not.
C3_RepeatedUIChangeWritesOnce ==
    \A c \in Chans :
        (/\ HasPair(c)
         /\ FirstOfPair(c).k = "ui"
         /\ SecondOfPair(c).k = "ui"
         /\ SecondOfPair(c).v = FirstOfPair(c).v)
        => /\ SecondOfPair(c).w = 0
           /\ ~SecondOfPair(c).chg
           /\ FirstOfPair(c).w = (IF FirstOfPair(c).differed THEN 1 ELSE 0)

\* C3 witness: a changed HandleUIChange(v) that wrote, then HandleUIChange(v)
\* again on the same channel.
C3_Witness ==
    \E c \in Chans :
        /\ HasPair(c)
        /\ FirstOfPair(c).k = "ui"
        /\ FirstOfPair(c).differed
        /\ FirstOfPair(c).w = 1
        /\ SecondOfPair(c).k = "ui"
        /\ SecondOfPair(c).v = FirstOfPair(c).v

\* The member channels of gang g.
Members(g) == {GangChannels[g][i] : i \in DOMAIN GangChannels[g]}

\* A call of the UI path, or of the dispatcher, returns in this step.
UIReturns == ui.pc # "idle" /\ ui'.pc = "idle"
DispReturns == disp.pc = "gFold" /\ disp'.pc = "idle"

\* C4, as claimed: a Gang.HandleUIChange(v) on a mirror-mode gang in which no
\* write failed returns with every member channel's cached UI value and the
\* gang's lastValue equal to v.
C4_MirrorBroadcast ==
    [][(UIReturns /\ GangMode[ui.g] = GangModeMirror /\ ucall'.failed = {})
       => /\ lastValue'[ui.g] = ui.v
          /\ \A c \in Members(ui.g) : lastUIValue'[c] = ui.v]_vars

\* C5, as claimed: when a Gang.HandleUIChange or a Gang.HandleHWChange of a
\* mirror-mode gang returns, the gang's lastValue equals the cached value of
\* channels[0].
C5_LastValueIsFirstChannel ==
    [][/\ (UIReturns /\ GangMode[ui.g] = GangModeMirror)
          => lastValue'[ui.g] = lastUIValue'[GangChannels[ui.g][1]]
       /\ (DispReturns /\ GangMode[disp.g] = GangModeMirror)
          => lastValue'[disp.g] = lastUIValue'[GangChannels[disp.g][1]]]_vars

\* The member of gang g that comes last, in channel order, among those in S.
LastIn(g, S) ==
    GangChannels[g][CHOOSE i \in DOMAIN GangChannels[g] :
                        /\ GangChannels[g][i] \in S
                        /\ \A j \in DOMAIN GangChannels[g] :
                               GangChannels[g][j] \in S => j <= i]

C8_RetryReconciles ==
    \A c \in Chans :
        (/\ HasPair(c)
         /\ FirstOfPair(c).k = "ui"
         /\ FirstOfPair(c).wfail
         /\ ~FirstOfPair(c).agree
         /\ \/ SecondOfPair(c).k = "ui" /\ SecondOfPair(c).v = FirstOfPair(c).v
            \/ SecondOfPair(c).k = "hw" /\ SecondOfPair(c).regAt)
        => SecondOfPair(c).agree

C10_CachesConverge ==
    (Quiescent /\ ~writeFailed)
    => \A c \in Chans : /\ lastUIValue[c] = hw[ChanParam[c]]
                        /\ lastHWValue[c] = hw[ChanParam[c]]

\* The channel handleControlChange reaches for parameter p, if any.
Notified(c) ==
    /\ OwnerGangs(ChanParam[c]) # {}
    /\ c = MemberFor(Min(OwnerGangs(ChanParam[c])), ChanParam[c])

\* What does hold of the convergence C10 claims: it holds of the channels
\* that notifications reach.
NotifiedChannelsConverge ==
    (Quiescent /\ ~writeFailed)
    => \A c \in Chans : Notified(c) => /\ lastUIValue[c] = hw[ChanParam[c]]
                                       /\ lastHWValue[c] = hw[ChanParam[c]]

\* ------------------------------------------------------ claims C11..C20
InRange(c, v) == v \in ControlMin(ChanParam[c])..ControlMax(ChanParam[c])

\* The gang that holds channel c (channels are built per gang).
GangOf(c) == CHOOSE g \in Gangs : c \in Members(g)

\* The parameter of channels[0] of gang g.
FirstParam(g) == ChanParam[GangChannels[g][1]]

\* C11, as claimed: in every reachable state each channel's lastUIValue and
\* lastHWValue lie within the range of its control, also in a gang whose
\* channels' ranges differ from that of channels[0].
C11_CachesInRange ==
    \A c \in Chans : InRange(c, lastUIValue[c]) /\ InRange(c, lastHWValue[c])

\* C11, amended: lastHWValue always lies within the range of the channel's
\* control, and so does lastUIValue for every channel whose range contains
\* the range of its gang (the range of channels[0]).
C11_CachesInRangeWhenCompatible ==
    \A c \in Chans :
        /\ InRange(c, lastHWValue[c])
        /\ (ControlMin(FirstParam(GangOf(c))) >= ControlMin(ChanParam[c])
            /\ ControlMax(FirstParam(GangOf(c))) <= ControlMax(ChanParam[c]))
           => InRange(c, lastUIValue[c])

\* C11 witness: with both paths idle again, a channel caches the maximum of
\* its range in both fields (set by a broadcast and its notification, or by a
\* hardware change).
C11_Witness ==
    \E c \in Chans :
        /\ ui.pc = "idle" /\ disp.pc = "idle"
        /\ opsLeft < MaxOps
        /\ lastUIValue[c] = ControlMax(ChanParam[c])
        /\ lastHWValue[c] = ControlMax(ChanParam[c])
        /\ ControlMax(ChanParam[c]) > ControlMin(ChanParam[c])

\* The control names of a channel sequence.
ControlsOf(channels) == [k \in DOMAIN channels |-> channels[k].control]

\* A channel as construction leaves it: both caches hold the value read from
\* its control.
FreshChannel(ch) ==
    /\ ch.control # Nil
    /\ Readable(ch.control)
    /\ ch.lastUIValue = ReadValue(ch.control)
    /\ ch.lastHWValue = ReadValue(ch.control)

\* The control names LoadGangs has passed to NewMixerChannel.
RECURSIVE Creations(_)
Creations(conf) ==
    IF conf = <<>> THEN 0
    ELSE Creations(SubSeq(conf, 1, Len(conf) - 1))
         + Cardinality({j \in DOMAIN conf[Len(conf)].controls :
               /\ OnCard(conf[Len(conf)].controls[j])
               /\ TypeSupported(ControlType(conf[Len(conf)].controls[j]))})

\* C12: channel construction reads its control exactly once and writes
\* nothing; with a nil control (no read at all) or a failing read it returns
\* an error and no channel, otherwise a channel whose lastUIValue and
\* lastHWValue are the value read.
C12_ChannelConstruction ==
    /\ queue = <<>>
    /\ ld.pc = "probed" =>
          /\ ld.reads = IF ld.arg = Nil THEN 0 ELSE 1
          /\ (ld.arg = Nil \/ ~Readable(ld.arg))
                => ld.probe.err # "" /\ ld.probe.ch = NoChannel
          /\ (ld.arg # Nil /\ Readable(ld.arg))
                => /\ ld.probe.err = ""
                   /\ ld.probe.ch.control = ld.arg
                   /\ FreshChannel(ld.probe.ch)
    /\ ld.pc # "probed" =>
          /\ ld.reads = Creations(ld.conf)
          /\ \A k \in DOMAIN ld.chans : FreshChannel(ld.chans[k])
          /\ \A i \in DOMAIN ld.gangs :
                 \A k \in DOMAIN ld.gangs[i].channels :
                     FreshChannel(ld.gangs[i].channels[k])
          /\ \A i \in DOMAIN ld.conf : \A j \in DOMAIN ld.conf[i].controls :
                 (/\ OnCard(ld.conf[i].controls[j])
                  /\ TypeSupported(ControlType(ld.conf[i].controls[j]))
                  /\ ~Readable(ld.conf[i].controls[j]))
                 => /\ ld.pc = "returned"
                    /\ ld.err = LoadErr(i, "control", j,
                                        "failed to create channel")

\* C12 witness: LoadGangs built a channel and then met a control whose read
\* fails.
C12_Witness ==
    /\ ld.pc = "returned"
    /\ ld.err.cause = "failed to create channel"
    /\ ld.reads >= 2

\* What the walked part of the configuration says of an entry.
ControlEntryFails(name) ==
    ~OnCard(name) \/ ~TypeSupported(ControlType(name)) \/ ~Readable(name)
LevelEntryFails(name) == ~OnCard(name)
GangEntryClean(gc) ==
    /\ gc.controls # <<>>
    /\ \A j \in DOMAIN gc.controls : ~ControlEntryFails(gc.controls[j])
    /\ \A j \in DOMAIN gc.levels : ~LevelEntryFails(gc.levels[j])

\* C17: LoadGangs returns either one gang per configured logical control, in
\* order, each with one channel per configured control name in order (and
\* its level controls), or an error for the first failing entry and no gang.
C17_AllOrNothing ==
    ld.pc = "returned" =>
        IF ld.err = LoadOK
        THEN /\ Len(ld.gangs) = Len(ld.conf)
             /\ \A i \in DOMAIN ld.conf :
                    /\ ControlsOf(ld.gangs[i].channels) = ld.conf[i].controls
                    /\ ld.gangs[i].levelControls = ld.conf[i].levels
                    /\ GangEntryClean(ld.conf[i])
        ELSE /\ ld.gangs = <<>>
             /\ ld.err.gang = Len(ld.conf)
             /\ \A i \in 1..(Len(ld.conf) - 1) : GangEntryClean(ld.conf[i])
             /\ LET gc == ld.conf[Len(ld.conf)]
                IN  CASE ld.err.entry = "control" ->
                           /\ ld.err.idx = Len(gc.controls)
                           /\ ControlEntryFails(gc.controls[ld.err.idx])
                           /\ \A j \in 1..(ld.err.idx - 1) :
                                  ~ControlEntryFails(gc.controls[j])
                      [] ld.err.entry = "level" ->
                           /\ ld.err.idx = Len(gc.levels)
                           /\ LevelEntryFails(gc.levels[ld.err.idx])
                           /\ \A j \in DOMAIN gc.controls :
                                  ~ControlEntryFails(gc.controls[j])
                           /\ \A j \in 1..(ld.err.idx - 1) :
                                  ~LevelEntryFails(gc.levels[j])
                      [] OTHER ->
                           /\ ld.err.entry = "fader"
                           /\ gc.controls = <<>>
                           /\ \A j \in DOMAIN gc.levels :
                                  ~LevelEntryFails(gc.levels[j])

\* C17 witness: LoadGangs fails in its second gang, after the first was
\* built.
C17_Witness ==
    /\ ld.pc = "returned"
    /\ ld.err # LoadOK
    /\ Len(ld.conf) = 2

\* C18: LoadGangs fails when a control name or a level name cannot be
\* resolved or a resolved control, gang control or level indicator, is not of
\* an integer type; every control bound into a returned gang has an integer
\* type.
C18_OnlyIntegerControls ==
    ld.pc = "returned" =>
        /\ ld.err = LoadOK =>
              \A i \in DOMAIN ld.gangs :
                  /\ \A k \in DOMAIN ld.gangs[i].channels :
                         TypeSupported(
                             ControlType(ld.gangs[i].channels[k].control))
                  /\ \A k \in DOMAIN ld.gangs[i].levelControls :
                         TypeSupported(
                             ControlType(ld.gangs[i].levelControls[k]))
        /\ (\E i \in DOMAIN ld.conf :
               \/ \E j \in DOMAIN ld.conf[i].controls :
                      \/ ~OnCard(ld.conf[i].controls[j])
                      \/ ~TypeSupported(ControlType(ld.conf[i].controls[j]))
               \/ \E j \in DOMAIN ld.conf[i].levels :
                      \/ ~OnCard(ld.conf[i].levels[j])
                      \/ ~TypeSupported(ControlType(ld.conf[i].levels[j])))
           => ld.err # LoadOK

\* What C18 says of gang controls alone: an unresolved name fails the load,
\* and so does a gang control of another type than integer.
GangControlsAreIntegers ==
    ld.pc = "returned" =>
        /\ ld.err = LoadOK =>
              \A i \in DOMAIN ld.gangs :
                  \A k \in DOMAIN ld.gangs[i].channels :
                      TypeSupported(
                          ControlType(ld.gangs[i].channels[k].control))
        /\ (\E i \in DOMAIN ld.conf :
               \/ \E j \in DOMAIN ld.conf[i].controls :
                      \/ ~OnCard(ld.conf[i].controls[j])
                      \/ ~TypeSupported(ControlType(ld.conf[i].controls[j]))
               \/ \E j \in DOMAIN ld.conf[i].levels :
                      ~OnCard(ld.conf[i].levels[j]))
           => ld.err # LoadOK

\* A gang as NewGangedFader leaves it, built from the controls named by gc.
FreshGang(gf, gc) ==
    /\ Len(gf.channels) >= 1
    /\ ControlsOf(gf.channels) = gc.controls
    /\ gf.levelControls = gc.levels
    /\ gf.mode = GangModeMirror
    /\ gf.min = ControlMin(NumID(gf.channels[1].control))
    /\ gf.max = ControlMax(NumID(gf.channels[1].control))
    /\ gf.lastValue = gf.channels[1].lastUIValue

\* C19: NewGangedFader fails on an empty channel list and otherwise takes
\* min, max and lastValue from channels[0]; a gang once built keeps its
\* mode, channels, level controls, min and max, and always has a channel.
C19_GangConstruction ==
    /\ [](/\ \A i \in DOMAIN ld.gangs : FreshGang(ld.gangs[i], ld.conf[i])
          /\ (ld.pc = "returned" /\ ld.err.entry = "fader")
                => /\ ld.conf[Len(ld.conf)].controls = <<>>
                   /\ ld.gangs = <<>>
          /\ (ld.pc \in {"gang", "returned"} /\ ld.err = LoadOK)
                => \A i \in DOMAIN ld.conf :
                       /\ ld.conf[i].controls # <<>>
                       /\ i \in DOMAIN ld.gangs)
    /\ [][\A i \in DOMAIN ld.gangs :
              \/ ld'.gangs = <<>> /\ ld'.err # LoadOK
              \/ i \in DOMAIN ld'.gangs /\ ld'.gangs[i] = ld.gangs[i]]_vars

\* C19 witness: a gang built from two controls that differ in range or in
\* value.
C19_Witness ==
    \E i \in DOMAIN ld.gangs :
        /\ Len(ld.gangs[i].channels) = 2
        /\ \/ ld.gangs[i].channels[1].lastUIValue
                  # ld.gangs[i].channels[2].lastUIValue
           \/ ControlMax(NumID(ld.gangs[i].channels[1].control))
                  # ControlMax(NumID(ld.gangs[i].channels[2].control))

\* C13: a Gang.HandleHWChange(parameterId, v) whose parameterId matches no
\* member channel changes neither the gang's lastValue nor any channel's
\* lastUIValue or lastHWValue, and writes nothing to the hardware.
C13_UnknownParameterIsNoOp ==
    [][(disp.pc = "gScan" /\ ~HasMember(disp.g, disp.p)) =>
          /\ disp'.pc = "idle"
          /\ UNCHANGED <<lastValue, lastUIValue, lastHWValue, hw, queue,
                         writeFailed>>]_vars

\* C13 witness: such a call, with a value other than the gang's lastValue,
\* has returned.
C13_Witness ==
    /\ disp.pc = "idle"
    /\ disp.g # 0
    /\ lastValue[disp.g] # disp.v

\* C14: a gang whose mode is relative or scaled behaves exactly like a
\* mirror-mode gang.  The mode is consulted in two places only, the switch of
\* HandleUIChange and the test after the channel call in HandleHWChange, so
\* the gangs behave alike iff at both places every gang does what a mirror
\* gang does: HandleUIChange stores the value and goes on to the broadcast,
\* HandleHWChange stores the notified value in lastValue before it returns.
C14_ModesBehaveAsMirror ==
    [][/\ (ui.pc = "gStore" /\ ui' # ui) =>
             /\ ui'.pc = "chLoad"
             /\ lastValue' = [lastValue EXCEPT ![ui.g] = ui.v]
       /\ (disp.pc = "gFold" /\ disp' # disp) =>
             lastValue' = [lastValue EXCEPT ![disp.g] = disp.v]]_vars

\* The half of C14 that the code keeps: on the UI path every mode stores the
\* value and broadcasts it as mirror mode does.
ModesBroadcastAsMirror ==
    [][(ui.pc = "gStore" /\ ui' # ui) =>
          /\ ui'.pc = "chLoad"
          /\ lastValue' = [lastValue EXCEPT ![ui.g] = ui.v]]_vars

\* The provider hands the next notification to the callback.
Delivered == queue # <<>> /\ queue' = Tail(queue)

\* C15: every notification (parameter, value) is forwarded to HandleHWChange
\* of a gang that has a member channel on that parameter, with that value; a
\* notification whose parameter belongs to no gang changes no cached value
\* and no register, fails nothing, and leaves the dispatcher ready for the
\* next notification.
C15_DispatchForwardsOrDrops ==
    [][Delivered =>
          LET p == Head(queue)[1]
              v == Head(queue)[2]
          IN  IF \E g \in Gangs : HasMember(g, p)
              THEN /\ disp'.pc = "hLoad"
                   /\ HasMember(disp'.g, p)
                   /\ disp'.c \in Members(disp'.g)
                   /\ ChanParam[disp'.c] = p
                   /\ disp'.v = v
              ELSE /\ disp' = DispIdle
                   /\ UNCHANGED <<lastUIValue, lastHWValue, lastValue, hw,
                                  writeFailed, ui>>]_vars

\* Configuration 2 has no channel on parameter 2: the only thing that
\* happened is a change of that parameter, whose notification was delivered
\* and dropped, and the dispatcher is idle again.
C15_Witness ==
    /\ observe
    /\ cfg = 2
    /\ opsLeft = MaxOps - 1
    /\ ucall = NoCall
    /\ \A c \in Chans : chLog[c] = <<>>
    /\ queue = <<>>
    /\ disp = DispIdle

\* C16: once the subscription stream has failed the dispatch loop is over
\* for good: the goroutine never runs again, no notification changes a
\* cached value (lastHWValue keeps its values, lastUIValue and lastValue
\* change only in steps of the UI path), the UI path can always go on (a
\* new HandleUIChange can start, a call in progress can take its next step),
\* and Start has returned nil.
C16_FailureEndsDispatch ==
    /\ [](disp.pc = "dead" =>
             /\ ld.pc = "monitoring"
             /\ ld.err = NoErr
             /\ (ui.pc = "idle" /\ opsLeft > 0) =>
                    ENABLED (\E g \in Gangs, v \in FaderValues : Draw(g, v))
             /\ ui.pc # "idle" => ENABLED UIStep)
    /\ [][disp.pc = "dead" =>
             /\ disp' = disp
             /\ UNCHANGED lastHWValue
             /\ (ui' = ui => UNCHANGED <<lastUIValue, lastValue>>)]_vars

\* The stream failed before anything else happened, and all calls and
\* changes came after it: the UI path has stored a value in a channel whose
\* lastHWValue still holds the start value, and a register holds a value
\* that reached neither cache of its channel although no notification is
\* pending.
C16_Witness ==
    /\ disp.pc = "dead"
    /\ disp.left = MaxOps
    /\ opsLeft = 0
    /\ ui.pc = "idle"
    /\ queue = <<>>
    /\ \E c \in Chans : /\ lastUIValue[c] # lastHWValue[c]
                        /\ hw[ChanParam[c]] = lastUIValue[c]
    /\ \E c \in Chans : /\ hw[ChanParam[c]] # lastUIValue[c]
                        /\ hw[ChanParam[c]] # lastHWValue[c]

\* The fader's knob is at the position where rawValue = v.
RawIs(v) == RawNum(shown.min, shown.max, shown.k) = v * NormSteps

\* C21: the linear conversion shows min at position 0 and max at position 1;
\* the decibel display shows the silent text for every raw value <= min and
\* exactly +12 dB for raw = max.
C21_TaperBoundaries ==
    shown.pc = "label" =>
        /\ (shown.unit # "db" /\ shown.k = 0) => shown.text = shown.min
        /\ (shown.unit # "db" /\ shown.k = NormSteps) =>
               shown.text = shown.max
        /\ (shown.unit = "db"
              /\ RawNum(shown.min, shown.max, shown.k)
                    <= shown.min * NormSteps) => shown.text = Silent
        /\ (shown.unit = "db" /\ RawIs(shown.max)) =>
               shown.text = "12.00 dB"

\* The boundaries of C21 on the ranges the conversion is written for, those
\* with min < max and max # 0.
TaperBoundariesOnUsualRanges ==
    (shown.pc = "label" /\ shown.min < shown.max /\ shown.max # 0) =>
        /\ (shown.unit # "db" /\ shown.k = 0) => shown.text = shown.min
        /\ (shown.unit # "db" /\ shown.k = NormSteps) =>
               shown.text = shown.max
        /\ (shown.unit = "db"
              /\ RawNum(shown.min, shown.max, shown.k)
                    <= shown.min * NormSteps) => shown.text = Silent
        /\ (shown.unit = "db" /\ RawIs(shown.max)) =>
               shown.text = "12.00 dB"

\* The brightness (the V of HSV) of a colour: its greatest component.
Brightness(c) ==
    IF c.r >= c.g /\ c.r >= c.b THEN c.r ELSE IF c.g >= c.b THEN c.g ELSE c.b

\* The perceived brightness (relative luminance) of a colour, times 10000.
Luminance(c) == 2126 * c.r + 7152 * c.g + 722 * c.b

\* The peak levels of C22: above 0 and up to levelMax.
PeakLevels(levelMax) == {l \in LevelValues : 0 < l /\ l <= levelMax}

GoodReads(reads) == {reads[i].val : i \in {j \in DOMAIN reads : ~reads[j].err}}

\* The greatest element of a set of integers.
SetMax(S) == CHOOSE x \in S : \A y \in S : y <= x

\* C23: GetMaxLevel returns the greatest value among the level controls
\* whose read succeeded, 0 if none succeeded or none is above 0; a failed
\* read is not reported (ok stays true and a colour is returned); a gang
\* without level controls gets (0, false) and no colour.
C23_PeakOfGroup ==
    shown.pc = "colour" =>
        IF shown.numLevels = 0
        THEN /\ ~shown.ok
             /\ shown.level = 0
             /\ shown.colour = NoColour
        ELSE /\ shown.ok
             /\ shown.level = SetMax(GoodReads(shown.reads) \cup {0})
             /\ shown.colour # NoColour
             /\ shown.colour =
                    LevelColor(shown.level, shown.levelMin, shown.levelMax)

\* Two level controls: the read of the first failed, the second returned
\* 512, which is the level shown.
C23_Witness ==
    /\ shown.pc = "colour"
    /\ shown.numLevels = 2
    /\ shown.reads[1].err
    /\ ~shown.reads[2].err
    /\ shown.reads[2].val = 512
    /\ shown.level = 512
    /\ shown.ok

\* The last two completed calls on channel c are HandleUIChange(v), which
\* wrote v to the hardware, and then HandleHWChange(v), the echo of the write.
EchoAfterWrite(c) ==
    /\ HasPair(c)
    /\ FirstOfPair(c).k = "ui"
    /\ FirstOfPair(c).w = 1
    /\ ~FirstOfPair(c).wfail
    /\ SecondOfPair(c).k = "hw"
    /\ SecondOfPair(c).v = FirstOfPair(c).v

\* C24: the echo of a UI write finds oldValue == newValue in HandleHWChange,
\* which returns early: lastHWValue and lastUIValue are what they were.
C24_EchoReturnsEarly ==
    \A c \in Chans :
        EchoAfterWrite(c) =>
            /\ ~SecondOfPair(c).differed
            /\ SecondOfPair(c).hwSame
            /\ ~SecondOfPair(c).chg

\* What the code keeps of C24: the echo writes nothing and leaves lastUIValue
\* at v; lastHWValue holds v afterwards, stored by the echo if need be.
EchoChangesHWCacheOnly ==
    \A c \in Chans :
        EchoAfterWrite(c) =>
            /\ SecondOfPair(c).w = 0
            /\ SecondOfPair(c).uiAt
            /\ SecondOfPair(c).hwAt

\* The first n member channels of gang g.
FirstMembers(g, n) == {GangChannels[g][i] : i \in 1..n}

\* The latest completed call on channel c after the step.
LastCallAfter(c) == chLog'[c][Len(chLog'[c])]

\* C25: Gang.HandleUIChange(v) with v = lastValue changes and writes nothing;
\* otherwise it stores v in lastValue and visits the member channels in
\* order, writing to exactly those whose cached UI value differs from v and
\* skipping the others.
C25_GangUIChangeWrites ==
    /\ [](ui.pc = "chLoad" =>
             ucall.written \cup ucall.skipped = FirstMembers(ui.g, ui.idx - 1))
    /\ [][/\ (ui.pc = "gLoad" /\ ui' # ui) =>
                IF lastValue[ui.g] = ui.v
                THEN /\ ui'.pc = "idle"
                     /\ ucall'.written = {}
                     /\ UNCHANGED <<lastValue, lastUIValue, lastHWValue, hw,
                                    queue>>
                ELSE ui'.pc = "gStore"
          /\ (ui.pc = "gStore" /\ ui' # ui) =>
                /\ lastValue'[ui.g] = ui.v
                /\ ui'.pc = "chLoad"
                /\ ui'.idx = 1
          /\ (UIReturns /\ ucall'.changed) =>
                /\ lastValue'[ucall'.g] = ucall'.v
                /\ ucall'.written \cup ucall'.skipped = Members(ucall'.g)
                /\ \A c \in Members(ucall'.g) :
                       /\ LastCallAfter(c).k = "ui"
                       /\ LastCallAfter(c).v = ucall'.v
                       /\ (c \in ucall'.written) = LastCallAfter(c).differed
                       /\ LastCallAfter(c).w
                            = (IF LastCallAfter(c).differed THEN 1 ELSE 0)
                /\ Cardinality(ucall'.written)
                     = Cardinality({c \in Members(ucall'.g) :
                                       LastCallAfter(c).differed})]_vars

\* A call that changed the gang's value has returned: it wrote to one
\* member channel and skipped another, which was already at the value.
C25_Witness ==
    /\ observe
    /\ ui.pc = "idle"
    /\ ucall.done
    /\ ucall.changed
    /\ ucall.written # {}
    /\ ucall.skipped # {}

\* Gang.HandleHWChange is in progress on the dispatcher.
InGangHWChange == disp.pc \in {"hLoad", "hStoreHW", "hStoreUI", "gFold"}

\* C26: in mirror mode Gang.HandleHWChange(id, v) works on the one member
\* channel bound to id: no other channel's caches change and nothing is
\* written; when it returns lastValue is v, whether or not the channel's
\* equality check suppressed the channel's update.
C26_HWChangeTouchesOneChannel ==
    [][(InGangHWChange /\ disp' # disp) =>
          /\ GangMode[disp.g] = GangModeMirror
          /\ disp.c \in Members(disp.g)
          /\ \A c \in Chans \ {disp.c} :
                 /\ lastUIValue'[c] = lastUIValue[c]
                 /\ lastHWValue'[c] = lastHWValue[c]
          /\ \A g \in Gangs \ {disp.g} : lastValue'[g] = lastValue[g]
          /\ UNCHANGED <<hw, queue>>
          /\ IF disp'.pc = "idle"
             THEN lastValue'[disp.g] = disp.v
             ELSE /\ disp'.g = disp.g
                  /\ disp'.c = disp.c
                  /\ disp'.v = disp.v
                  /\ UNCHANGED lastValue]_vars

\* The call for one member has returned: lastValue is the value that channel
\* reported and differs from what another member of the gang has cached.
C26_Witness ==
    /\ observe
    /\ disp.pc = "idle"
    /\ ui.pc = "idle"
    /\ \E g \in Gangs : \E c \in Members(g) :
          /\ HasLast(c)
          /\ LastCall(c).k = "hw"
          /\ LastCall(c).v = lastValue[g]
          /\ lastUIValue[c] = lastValue[g]
          /\ \E d \in Members(g) \ {c} :
                 /\ lastUIValue[d] # lastValue[g]
                 /\ ~HasLast(d)

\* A call whose channel update was suppressed by the equality check has
\* returned, and lastValue holds its value.
SuppressedCallReturned ==
    /\ observe
    /\ disp.pc = "idle"
    /\ \E g \in Gangs : \E c \in Members(g) :
          /\ HasLast(c)
          /\ LastCall(c).k = "hw"
          /\ ~LastCall(c).differed
          /\ LastCall(c).v = lastValue[g]

\* C27: when writes failed during Gang.HandleUIChange(v), the gang's and
\* every member channel's GetCurrentValue() are v when the call returns, the
\* failing channels included, and the UI path is free for the next fader:
\* the error changes nothing in what Draw does next.
C27_FailedWritesKeepValue ==
    /\ [][(UIReturns /\ ucall'.failed # {}) =>
             /\ ucall'.ret # NoErr
             /\ lastValue'[ucall'.g] = ucall'.v
             /\ \A c \in Members(ucall'.g) : lastUIValue'[c] = ucall'.v
             /\ ui' = UIIdle]_vars
    /\ [](/\ ui.pc = "idle"
          /\ disp.pc = "idle"
          /\ ucall.failed # {}
          /\ opsLeft > 0
          => \A g \in Gangs :
                ENABLED (\E v \in FaderValues : Draw(g, v)))

\* A call has returned an error: the write to one member failed, its
\* register does not hold v, and the gang and all members report v.
C27_Witness ==
    /\ observe
    /\ ui.pc = "idle"
    /\ ucall.done
    /\ ucall.ret # NoErr
    /\ \E c \in ucall.failed : hw[ChanParam[c]] # ucall.v
    /\ GangGetCurrentValue(ucall.g) = ucall.v
    /\ \A c \in Members(ucall.g) : ChanGetCurrentValue(c) = ucall.v

\* An upper bound of the steps the UI call in progress still takes: three
\* per member channel not yet done, and the two steps of the gang before.
UIRank ==
    LET len == IF ui.g \in Gangs THEN Len(GangChannels[ui.g]) ELSE 0
        rest == 3 * (len - ui.idx + 1)
    IN  CASE ui.pc = "idle" -> 0
          [] ui.pc = "gLoad" -> 3 * len + 2
          [] ui.pc = "gStore" -> 3 * len + 1
          [] ui.pc = "chLoad" -> rest
          [] ui.pc = "chStore" -> rest - 1
          [] ui.pc = "chWrite" -> rest - 2

\* An upper bound of the steps the dispatcher's call in progress still takes.
DispRank ==
    CASE disp.pc = "idle" -> 0
      [] disp.pc = "hLoad" -> 4
      [] disp.pc = "hStoreHW" -> 3
      [] disp.pc = "hStoreUI" -> 2
      [] disp.pc = "gFold" -> 1

\* C28: neither path waits on the other.  A call in progress on either path
\* can always take its next step, whatever the other path is doing, and each
\* of its steps brings it nearer to its return (the bound depends on the
\* number of member channels only); Start can return although no
\* notification has arrived.
C28_NoWaiting ==
    /\ [](/\ ui.pc # "idle" => ENABLED UIStep
          /\ disp.pc # "idle" => ENABLED DispStep
          /\ (ld.pc = "returned" /\ queue = <<>>) => ENABLED Start)
    /\ [][/\ (ui.pc # "idle" /\ ui' # ui) => UIRank' < UIRank
          /\ (disp.pc # "idle" /\ disp' # disp) => DispRank' < DispRank]_vars

\* Start has returned; a UI call is about to write to the channel whose
\* caches the dispatcher is storing into at the same time.
C28_Witness ==
    /\ ld.pc = "monitoring"
    /\ ui.pc = "chWrite"
    /\ disp.pc = "hStoreUI"
    /\ UIChan = disp.c

\* Gang.HandleHWChange returns in this step, and the value it brought
\* differed from the channel's lastHWValue.
ChangedHWReturns == DispReturns /\ LastCall(disp.c).differed

\* C29: when HandleHWChange(id, v) with v different from the channel's
\* lastHWValue has completed, what the render loop reads next, the gang's
\* and the owning channel's GetCurrentValue(), is v.
C29_HWChangeVisible ==
    [][ChangedHWReturns =>
          /\ lastUIValue'[disp.c] = disp.v
          /\ lastValue'[disp.g] = disp.v]_vars

\* C29 for mirror gangs, and for the channel of a gang of any mode.
HWChangeVisibleInMirror ==
    [][ChangedHWReturns =>
          /\ lastUIValue'[disp.c] = disp.v
          /\ lastHWValue'[disp.c] = disp.v
          /\ GangMode[disp.g] = GangModeMirror =>
                 lastValue'[disp.g] = disp.v]_vars

\* C30: lastHWValue is never modified on the UI path; it changes only in
\* the store of MixerChannel.HandleHWChange, a step of the dispatcher, and
\* only for the channel the notification is for.
C30_OnlyDispatcherStoresHWCache ==
    [][/\ ui' # ui => lastHWValue' = lastHWValue
       /\ lastHWValue' # lastHWValue =>
             /\ disp.pc = "hStoreHW" /\ disp'.pc = "hStoreUI"
             /\ ui' = ui
             /\ lastHWValue' = [lastHWValue EXCEPT ![disp.c] = disp.v]]_vars

\* A UI change of channel 1 has been stored and written with no
\* notification handled since: the two caches of the channel differ.
C30_Witness ==
    /\ ui.pc = "idle" /\ disp.pc = "idle"
    /\ lastUIValue[1] = 1 /\ hw[1] = 1
    /\ lastHWValue[1] = 0

\* C31: a Gang.HandleUIChange(v) that finds lastValue = v (as after the
\* notification of one member's change to v) is suppressed by the gang's
\* equality check: it returns at once, no channel is called or written, and
\* every cache, also of a member caching another value, and every register
\* stays as it was; the UI path writes only in a call whose value differed
\* from lastValue.
C31_EqualValueSuppressed ==
    [][/\ (ui.pc = "gLoad" /\ lastValue[ui.g] = ui.v) =>
             /\ ui'.pc = "idle"
             /\ ucall'.done /\ ucall'.ret = NoErr /\ ~ucall'.changed
             /\ ucall'.written = {} /\ ucall'.skipped = {}
             /\ UNCHANGED <<hw, queue, lastUIValue, lastHWValue, lastValue,
                            chLog>>
       /\ (ui.pc = "chWrite" /\ hw' # hw) => ucall.changed]_vars

\* The notification of parameter 1's change to 1 set lastValue to 1 while
\* channel 2 caches 0, and the user's HandleUIChange(1) has returned
\* suppressed: channel 2 is still at 0.
C31_Witness ==
    /\ cfg = 1
    /\ ucall.done /\ ~ucall.changed /\ ucall.v = 1
    /\ lastValue[1] = 1
    /\ HasLast(1) /\ LastCall(1).k = "hw" /\ LastCall(1).differed
    /\ lastUIValue[1] = 1
    /\ lastUIValue[2] = 0 /\ hw[2] = 0
    /\ Quiescent

\* The notifications of parameter p still in flight, oldest first.
RECURSIVE PendingFor(_, _)
PendingFor(p, q) ==
    IF q = <<>> THEN <<>>
    ELSE IF Head(q)[1] = p THEN <<Head(q)[2]>> \o PendingFor(p, Tail(q))
    ELSE PendingFor(p, Tail(q))

\* A completed HandleUIChange of a channel that issued its write, which
\* succeeded.
WroteOK(rec) == rec.k = "ui" /\ rec.w = 1 /\ ~rec.wfail

\* The channel call of the dispatcher returns in this step.
ChanHWReturns == disp.pc \in {"hLoad", "hStoreUI"} /\ disp'.pc = "gFold"

\* The dispatcher is in HandleHWChange with the echo of v1 for a channel
\* whose last two calls are the user's writes of v1 and of another value v2:
\* the echo of v2 is the one notification of the parameter still in flight.
LateEcho ==
    /\ disp.pc \in {"hLoad", "hStoreHW", "hStoreUI"}
    /\ HasPair(disp.c)
    /\ WroteOK(FirstOfPair(disp.c)) /\ WroteOK(SecondOfPair(disp.c))
    /\ FirstOfPair(disp.c).v # SecondOfPair(disp.c).v
    /\ disp.v = FirstOfPair(disp.c).v
    /\ PendingFor(ChanParam[disp.c], queue) = <<SecondOfPair(disp.c).v>>

\* The last two calls of channel c are the user's write of v2 and a
\* notification of another value v1.
EchoOvertaken(c) ==
    /\ HasPair(c)
    /\ WroteOK(FirstOfPair(c))
    /\ SecondOfPair(c).k = "hw"
    /\ SecondOfPair(c).v # FirstOfPair(c).v

\* After the late echo of v1 the echo of v2 is still in flight.
BeforeSecondEcho(c) ==
    /\ EchoOvertaken(c)
    /\ PendingFor(ChanParam[c], queue) = <<FirstOfPair(c).v>>

\* The dispatcher is in HandleHWChange with the echo of v2, after the late
\* echo of v1.
SecondEcho ==
    /\ disp.pc \in {"hLoad", "hStoreHW", "hStoreUI"}
    /\ EchoOvertaken(disp.c)
    /\ disp.v = FirstOfPair(disp.c).v
    /\ PendingFor(ChanParam[disp.c], queue) = <<>>

\* What the late echo and the echo after it do besides the channel's
\* lastUIValue: no write is issued, a mirror gang's lastValue takes the
\* notified value when HandleHWChange returns, and the echo of v2 brings the
\* channel's lastUIValue to v2.
LateEchoFolds ==
    /\ ((LateEcho \/ SecondEcho) /\ disp' # disp) => UNCHANGED <<hw, queue>>
    /\ (DispReturns /\ BeforeSecondEcho(disp.c)
           /\ disp.v = SecondOfPair(disp.c).v) =>
          lastValue'[disp.g] = disp.v
    /\ (ChanHWReturns /\ SecondEcho) => lastUIValue'[disp.c] = disp.v
    /\ (DispReturns /\ HasLast(disp.c) /\ LastCall(disp.c).k = "hw"
           /\ LastCall(disp.c).v = disp.v) =>
          lastValue'[disp.g] = disp.v

Outstanding(c, v) ==
    \/ \E i \in DOMAIN queue : queue[i] = <<ChanParam[c], v>>
    \/ /\ disp.pc \in {"hLoad", "hStoreHW", "hStoreUI"}
       /\ disp.c = c
       /\ disp.v = v

\* The cache of channel c was overwritten: its latest calls are a
\* HandleUIChange(u) that wrote u and a HandleHWChange(x), x # u, that
\* returned after it and stored x, and the register still holds u.
Overwritten(c) ==
    /\ EchoOvertaken(c)
    /\ SecondOfPair(c).differed
    /\ hw[ChanParam[c]] = FirstOfPair(c).v

OverwrittenReached ==
    /\ Overwritten(1) /\ lastUIValue[1] = 1 /\ hw[1] = 0
    /\ disp.pc = "gFold" /\ ui.pc = "idle"
    /\ opsLeft = MaxOps - 2

\* The gang the dispatcher is calling, or calls in this step.
CalledGang == IF disp.pc = "idle" THEN disp'.g ELSE disp.g

\* C34: a notification is delivered to at most one gang, the first gang in
\* the monitor's order with a channel on the parameter: HandleHWChange is
\* called on that gang once, the call stays with that gang and channel until
\* it returns, and no step of the dispatcher changes lastValue of another
\* gang or a cache of another gang's channel, also one bound to the same
\* parameter.
C34_FirstGangOnly ==
    [][/\ (Delivered /\ OwnerGangs(Head(queue)[1]) # {}) =>
             /\ disp'.pc = "hLoad"
             /\ disp'.g \in OwnerGangs(Head(queue)[1])
             /\ \A g \in OwnerGangs(Head(queue)[1]) : disp'.g <= g
       /\ (disp.pc # "idle" /\ disp'.pc # "idle") =>
             disp'.g = disp.g /\ disp'.c = disp.c /\ disp'.v = disp.v
       /\ DispReturns => disp' = DispIdle /\ UNCHANGED queue
       /\ (disp' # disp) =>
             \A g \in Gangs \ {CalledGang} :
                 /\ lastValue'[g] = lastValue[g]
                 /\ \A c \in Members(g) :
                       /\ lastUIValue'[c] = lastUIValue[c]
                       /\ lastHWValue'[c] = lastHWValue[c]]_vars

\* Both gangs of configuration 2 have a channel on parameter 1; other
\* software changed it to 1 and the notification has been handled: the first
\* gang and its channel hold 1, the second gang and its channel still 0.
C34_Witness ==
    /\ cfg = 2
    /\ Quiescent
    /\ opsLeft = MaxOps - 1
    /\ hw[1] = 1
    /\ lastValue = <<1, 0>>
    /\ lastUIValue = <<1, 0>>
    /\ lastHWValue = <<1, 0>>
    /\ HasLast(1) /\ LastCall(1).k = "hw"
    /\ ~HasLast(2)

\* C35: Gang.HandleUIChange(v), v different from lastValue, on a gang whose
\* mode is none of mirror, relative, scaled returns the error "unknown gang
\* mode" having called and written no channel, with lastValue already v; a
\* HandleUIChange on such a gang that finds lastValue = v, as the repeated
\* call does, returns nil and writes nothing either.
C35_UnknownModeStoresThenFails ==
    [][(UIReturns /\ ~ModeBroadcasts(GangMode[ui.g])) =>
          /\ ucall'.done
          /\ ucall'.written = {} /\ ucall'.skipped = {}
          /\ UNCHANGED <<hw, queue, lastUIValue, lastHWValue, chLog>>
          /\ lastValue'[ui.g] = ui.v
          /\ IF ucall'.changed
             THEN /\ ucall'.ret = ModeErr
                  /\ lastValue[ui.g] # ui.v
             ELSE /\ ucall'.ret = NoErr
                  /\ UNCHANGED lastValue]_vars

\* On the gang of configuration 6, all at 0: HandleUIChange(1) returned the
\* error, and the same call again has returned nil; lastValue is 1, every
\* channel cache and register still 0, nothing was notified.
C35_Witness ==
    /\ cfg = 6
    /\ opsLeft = MaxOps - 2
    /\ ui.pc = "idle"
    /\ ucall.done /\ ucall.v = 1 /\ ~ucall.changed /\ ucall.ret = NoErr
    /\ lastValue[1] = 1
    /\ lastUIValue = <<0, 0>> /\ lastHWValue = <<0, 0>>
    /\ hw = <<0, 0>> /\ queue = <<>>
    /\ \A c \in Chans : chLog[c] = <<>>

\* The first of the two calls has returned the error.
UnknownModeErrorReturned ==
    /\ cfg = 6
    /\ opsLeft = MaxOps - 1
    /\ ucall.done /\ ucall.v = 1 /\ ucall.changed /\ ucall.ret = ModeErr
    /\ lastValue[1] = 1
    /\ lastUIValue = <<0, 0>> /\ hw = <<0, 0>> /\ queue = <<>>

\* ------------------------------------------------------------- startup
\* run(): LoadGangs, then NewEventMonitor and Start.  ld.read holds the value
\* NewMixerChannel read for each channel built so far.
Loading == [pc |-> "loading", read |-> <<>>]

\* The channel LoadGangs builds next.
NextChan == Len(ld.read) + 1

\* Mutant: a NewMixerChannel that writes the value it read back to the
\* control.
ReadInitialWritingBack ==
    /\ ld.pc = "loading"
    /\ NextChan \in Chans
    /\ SetValue(ChanParam[NextChan], hw[ChanParam[NextChan]], TRUE)
    /\ LET c == NextChan
           v == hw[ChanParam[c]]
           g == GangOf(c)
       IN  /\ lastUIValue' = Append(lastUIValue, v)
           /\ lastHWValue' = Append(lastHWValue, v)
           /\ lastValue' =
                  IF c = GangChannels[g][Len(GangChannels[g])]
                  THEN Append(lastValue, lastUIValue'[GangChannels[g][1]])
                  ELSE lastValue
           /\ ld' = [ld EXCEPT !.read = Append(@, v),
                               !.pc = IF c = Cardinality(Chans)
                                      THEN "returned" ELSE "loading"]
    /\ UNCHANGED <<cfg, observe, shown, writeFailed>>
    /\ UNCHANGED <<ui, disp, opsLeft, chLog, ucall>>

\* LoadGangs at the next control name: NewMixerChannel reads the control
\* once into both caches; after the last control of a gang NewGangedFader
\* takes the value of channels[0]; after the last gang LoadGangs returns.
ReadInitial ==
    /\ ld.pc = "loading"
    /\ NextChan \in Chans
    /\ LET c == NextChan
           v == hw[ChanParam[c]]
           g == GangOf(c)
       IN  /\ lastUIValue' = Append(lastUIValue, v)
           /\ lastHWValue' = Append(lastHWValue, v)
           /\ lastValue' =
                  IF c = GangChannels[g][Len(GangChannels[g])]
                  THEN Append(lastValue, lastUIValue'[GangChannels[g][1]])
                  ELSE lastValue
           /\ ld' = [ld EXCEPT !.read = Append(@, v),
                               !.pc = IF c = Cardinality(Chans)
                                      THEN "returned" ELSE "loading"]
    /\ UNCHANGED <<cfg, observe, shown, writeFailed>>
    /\ UNCHANGED <<hw, queue, ui, disp, opsLeft, chLog, ucall>>

\* Other software changes parameter p while nothing is subscribed (the
\* goroutine of Start calls WatchControls): nobody is notified.
UnwatchedChange(p, v) ==
    /\ ld.pc \in {"loading", "returned"}
    /\ opsLeft > 0
    /\ v # hw[p]
    /\ v \in ControlMin(p)..ControlMax(p)
    /\ opsLeft' = opsLeft - 1
    /\ hw' = [hw EXCEPT ![p] = v]
    /\ UNCHANGED <<cfg, observe, ld, shown, writeFailed>>
    /\ UNCHANGED <<queue, lastUIValue, lastHWValue, lastValue, ui,
                   disp, chLog, ucall>>

StartupInit ==
    /\ cfg \in Configs
    /\ observe = FALSE
    /\ hw \in {h \in [Params -> {0, MaxVal}] : h[1] = 0}
    /\ queue = <<>>
    /\ lastUIValue = <<>>
    /\ lastHWValue = <<>>
    /\ lastValue = <<>>
    /\ ui = UIIdle
    /\ disp = DispIdle
    /\ opsLeft = MaxOps
    /\ writeFailed = FALSE
    /\ chLog = [c \in Chans |-> <<>>]
    /\ ucall = NoCall
    /\ ld = Loading
    /\ shown = NoDisplay

StartupNext ==
    \/ ReadInitial
    \/ \E p \in Params, v \in Values : UnwatchedChange(p, v)
    \/ Start
    \/ ld.pc = "monitoring" /\ SeqNext

\* The program from the call of LoadGangs on: the initial reads, Start, then
\* sequential calls as in SeqSpec, with the hardware free to change at any
\* time.
StartupSpec == StartupInit /\ [][StartupNext]_vars

\* Channel c still caches the value read at startup although the register
\* has changed since, and nothing on its way will tell: no notification of
\* its parameter is in flight or being handled, no UI call is at the channel.
Stale(c) ==
    /\ ld.pc = "monitoring"
    /\ lastUIValue[c] = ld.read[c] /\ lastHWValue[c] = ld.read[c]
    /\ hw[ChanParam[c]] # ld.read[c]
    /\ PendingFor(ChanParam[c], queue) = <<>>
    /\ ~(disp.pc # "idle" /\ ChanParam[disp.c] = ChanParam[c])
    /\ ~(ui.pc \in {"chLoad", "chStore", "chWrite"} /\ UIChan = c)

\* C36: LoadGangs reads every channel's initial value, without writing to
\* the hardware and before anything is subscribed (Start comes after the
\* last read, and no notification exists or is handled before it); a change
\* of the hardware after a channel's read and before Start is never
\* notified, and the channel's caches keep the value read, different from
\* the register, until a later change of the parameter is notified or a UI
\* call reaches the channel.
C36_StartupWindow ==
    /\ [](ld.pc \in {"loading", "returned"} =>
             /\ queue = <<>> /\ disp = DispIdle /\ ui = UIIdle
             /\ Len(lastUIValue) = Len(ld.read)
             /\ \A c \in DOMAIN ld.read :
                   lastUIValue[c] = ld.read[c] /\ lastHWValue[c] = ld.read[c])
    /\ [](ld.pc \in {"returned", "monitoring"} =>
             DOMAIN ld.read = Chans)
    /\ [][/\ (ld.pc = "loading" /\ ld' # ld) =>
                /\ UNCHANGED <<hw, queue>>
                /\ lastUIValue'[NextChan] = hw[ChanParam[NextChan]]
                /\ lastHWValue'[NextChan] = hw[ChanParam[NextChan]]
          /\ (ld.pc = "returned" /\ ld' # ld) =>
                /\ ld'.pc = "monitoring"
                /\ UNCHANGED <<hw, queue, lastUIValue, lastHWValue,
                               lastValue>>
          /\ \A c \in Chans :
                (Stale(c) /\ ~Stale(c)') =>
                    \/ PendingFor(ChanParam[c], queue') # <<>>
                    \/ ui'.pc \in {"chLoad", "chStore", "chWrite"}
                          /\ GangChannels[ui'.g][ui'.idx] = c]_vars

\* Parameter 1 was changed to 1 after channel 1's read of 0 and before
\* Start; the monitor runs, nothing is in flight, the user and other
\* software have done nothing since: channel 1 and its gang still hold 0.
C36_Witness ==
    /\ Stale(1)
    /\ ld.read[1] = 0 /\ hw[1] = 1
    /\ lastValue[1] = 0
    /\ opsLeft = MaxOps - 1
    /\ Quiescent

====
